---- MODULE Spec2Model ----
(***************************************************************************)
(* Inventory ledger and order-generation engine of the cocktail recipe     *)
(* backend (backend/routers/inventory.py, backend/routers/orders.py).      *)
(*                                                                         *)
(* Amounts of order lines (millilitres and raw quantities) are floats in   *)
(* the source.  Every amount the engine computes is                        *)
(*   recipe quantity * people * servings_per_person / 4                    *)
(* so the model keeps them as integers in quarter units (amount * 4),      *)
(* which is exact for integer recipe quantities.  Stock quantities and     *)
(* movement changes are integers in the source (int(...), Integer column). *)
(***************************************************************************)
EXTENDS Integers, Sequences, FiniteSets, TLC

(***************************************************************************)
(* Bounds of the model.                                                    *)
(***************************************************************************)
MaxOps == 2

(***************************************************************************)
(* Program constants.                                                      *)
(***************************************************************************)
MenuSize == 4
WednesdayIndex == 2
DaysPerWeek == 7

NULL == "NULL"
Locations == {"BAR", "WAREHOUSE"}

(***************************************************************************)
(* Catalog (external collaborators, read only): ingredients, bottles,      *)
(* inventory items, recipes, suppliers.                                    *)
(***************************************************************************)
IngredientIds == {"gin", "lime"}
Ingredient ==
  [i \in IngredientIds |->
     IF i = "gin" THEN [default_supplier_id |-> "sup1"]
                  ELSE [default_supplier_id |-> NULL]]

BottleIds == {"b_gin"}
Bottle ==
  [b \in BottleIds |-> [ingredient_id |-> "gin", volume_ml |-> 4, is_default_cost |-> TRUE]]

InventoryItemIds == {"it_gin", "it_lime"}
InventoryItem ==
  [it \in InventoryItemIds |->
     IF it = "it_gin"
       THEN [item_type |-> "BOTTLE", bottle_id |-> "b_gin", ingredient_id |-> NULL, unit |-> "bottle"]
       ELSE [item_type |-> "GARNISH", bottle_id |-> NULL, ingredient_id |-> "lime", unit |-> "piece"]]

\* An id that references no inventory item (request for a missing item).
GhostItemId == "it_ghost"

CocktailIds == {"c_gimlet", "c_martini"}
\* recipe_ingredients of a cocktail: ingredient, per-serving quantity, unit, pinned bottle
RecipeIngredients ==
  [c \in CocktailIds |->
     IF c = "c_gimlet"
       THEN << [ingredient_id |-> "gin", quantity |-> 1, unit |-> "ml", bottle_id |-> NULL],
               [ingredient_id |-> "lime", quantity |-> 1, unit |-> "piece", bottle_id |-> NULL] >>
       ELSE << [ingredient_id |-> "gin", quantity |-> 1, unit |-> "ml", bottle_id |-> NULL] >>]

EventIds == {"e1", "e2"}
GhostEventId == "e_ghost"

VARIABLES
  stock,       \* InventoryStock rows: (item, location) -> [quantity, reserved_quantity]
  movements,   \* InventoryMovement rows in insertion order; the id of a row is its index
  orders,      \* Order rows with their OrderItem rows
  next_order_id, \* next fresh Order id
  events,      \* Event rows: id -> [name, event_date, people, servings_per_person, menu]
  last,        \* the last request and its response: [op, status, args, out]
  nops,        \* number of requests served
  consumed,    \* history: events consumed successfully and not unconsumed since
  debited,     \* history: the events of consumed whose consume wrote a movement
  sessions,    \* the open database sessions of concurrent requests: session -> its transaction
  applied,     \* history: the stock upserts of the committed concurrent transactions
  stock0       \* history: the InventoryStock rows of the initial state

vars == << stock, movements, orders, next_order_id, events, last, nops, consumed, debited,
           sessions, applied, stock0 >>

\* The committed database as one value (what a transaction reads and writes).
DB == [stock |-> stock, movements |-> movements, orders |-> orders, next_order_id |-> next_order_id]

(***************************************************************************)
(* Stock ledger.                                                           *)
(***************************************************************************)
StockKey(item, loc) == << item, loc >>

HasStockRow(st, item, loc) == StockKey(item, loc) \in DOMAIN st

\* INSERT ... ON CONFLICT (location, inventory_item_id) DO UPDATE SET quantity = quantity + delta
StockUpsert_no_increment(st, item, loc, delta) ==
  IF HasStockRow(st, item, loc)
    THEN [st EXCEPT ![StockKey(item, loc)].quantity = delta]
    ELSE st @@ (StockKey(item, loc) :> [quantity |-> delta, reserved_quantity |-> 0])

StockUpsert(st, item, loc, delta) ==
  IF HasStockRow(st, item, loc)
    THEN [st EXCEPT ![StockKey(item, loc)].quantity = @ + delta]
    ELSE st @@ (StockKey(item, loc) :> [quantity |-> delta, reserved_quantity |-> 0])

NewMovement(loc, item, delta, reason, source_type, source_event_id, is_reversal, reversal_of_id) ==
  [location |-> loc, inventory_item_id |-> item, change |-> delta, reason |-> reason,
   source_type |-> source_type, source_event_id |-> source_event_id,
   is_reversal |-> is_reversal, is_reversed |-> FALSE, reversal_of_id |-> reversal_of_id]

\* _upsert_stock_and_add_movement: one movement row and the stock upsert, in the caller's transaction
_upsert_stock_and_add_movement(db, loc, item, delta, reason, source_type, source_event_id, is_reversal, reversal_of_id) ==
  [db EXCEPT
     !.movements = Append(@, NewMovement(loc, item, delta, reason, source_type, source_event_id,
                                         is_reversal, reversal_of_id)),
     !.stock = StockUpsert(@, item, loc, delta)]

\* available = quantity - reserved_quantity of a stock row
Available(row) == row.quantity - row.reserved_quantity

(***************************************************************************)
(* A request runs in one session: its writes are committed by db.commit()  *)
(* at the end of the handler; when the handler raises, the session is      *)
(* closed without a commit and the writes are rolled back.                 *)
(***************************************************************************)
Ok(db, status) == [ok |-> TRUE, status |-> status, db |-> db]
Fail(db, status) == [ok |-> FALSE, status |-> status, db |-> db]

Committed_partial(pre, res) == res.db

Committed(pre, res) == IF res.ok THEN res.db ELSE pre

\* the end of a request: commit or rollback, and the response.  A rejected request leaves
\* the database as the requests before it left it, so the requests that could follow it are
\* the ones that could have been made in its place: a behaviour is not continued past it.
Finish(op, args, res, out) ==
  LET post == Committed(DB, res) IN
  /\ stock' = post.stock
  /\ movements' = post.movements
  /\ orders' = post.orders
  /\ next_order_id' = post.next_order_id
  /\ last' = [op |-> op, status |-> res.status, args |-> args, out |-> out,
              dirty |-> res.db # DB]
  /\ nops' = IF res.ok THEN nops + 1 ELSE MaxOps
  /\ UNCHANGED << sessions, applied, stock0 >>

(***************************************************************************)
(* create_movement                                                         *)
(***************************************************************************)
\* int(x / y) of Python for y > 0: truncation toward zero
TruncDiv(x, y) == IF x >= 0 THEN x \div y ELSE -((-x) \div y)

\* payload.change is a float: the model keeps it in halves (change * 2)
ChangeUnit == 2
Whole(n) == n * ChangeUnit

\* the changes and reasons of the requests, as they are sent: a stock-in and a stock-out
\* without a reason, USAGE with 0.5 and with 2, waste with -1 and with 2, and two spellings
\* of TRANSFER
MovementInputs ==
  { << Whole(2), NULL >>, << Whole(-1), NULL >>,
    << 1, "USAGE" >>, << Whole(2), "USAGE" >>,
    << Whole(-1), "waste" >>, << Whole(2), "waste" >>,
    << Whole(-1), "TRANSFER" >>, << Whole(2), " Transfer " >> }

\* the changes and reasons of the postings made between the other requests
LedgerInputs ==
  { << Whole(2), NULL >>, << Whole(-1), NULL >>, << Whole(-1), "USAGE" >>, << Whole(2), "TRANSFER" >> }

\* str.strip() and str.upper() on the reasons of the model
Strip(text) == IF text = " Transfer " THEN "Transfer" ELSE text

Upper(text) ==
  IF text \in {"Transfer", "transfer"} THEN "TRANSFER"
  ELSE IF text \in {" Transfer ", " transfer "} THEN " TRANSFER "
  ELSE IF text \in {"usage", "Usage"} THEN "USAGE"
  ELSE IF text \in {"waste", "Waste"} THEN "WASTE"
  ELSE text

\* the validator of reason and source_type of the payload: v.strip() or None
_strip_nullable(v) == IF v = NULL THEN NULL ELSE IF Strip(v) = "" THEN NULL ELSE Strip(v)

\* reason_upper = (payload.reason or "").strip().upper()
ReasonUpper_as_given(reason) == IF reason = NULL THEN "" ELSE reason

ReasonUpper(reason) == IF reason = NULL THEN "" ELSE Upper(Strip(reason))

\* delta = int(payload.change)
MovementDelta(change) == TruncDiv(change, ChangeUnit)

\* the handler on the validated payload (reason and source_type stripped by the schema)
create_movement_run(db, loc, item, change, reason, source_type) ==
  IF ReasonUpper(reason) \in {"USAGE", "WASTE"} /\ MovementDelta(change) > 0 THEN Fail(db, 400)
  ELSE IF ReasonUpper(reason) = "TRANSFER" THEN Fail(db, 400)
  ELSE IF item \notin InventoryItemIds THEN Fail(db, 404)
  ELSE Ok([db EXCEPT
             !.movements = Append(@, NewMovement(loc, item, MovementDelta(change), reason,
                                                 source_type, NULL, FALSE, 0)),
             !.stock = StockUpsert(@, item, loc, MovementDelta(change))], 201)

create_movement(loc, item, change, reason, source_type) ==
  /\ nops < MaxOps
  /\ Finish("create_movement",
            [location |-> loc, inventory_item_id |-> item, change |-> change, reason |-> reason],
            create_movement_run(DB, loc, item, change, _strip_nullable(reason),
                                _strip_nullable(source_type)), << >>)
  /\ UNCHANGED << events, consumed, debited >>

(***************************************************************************)
(* create_transfer                                                         *)
(***************************************************************************)
TransferItems == {"it_gin", GhostItemId}
TransferQuantities == {0, 1, 10}
\* the upsert of the request at which the database raises (0: none)
TransferFaults == {0, 2}

\* the availability check of the source: available < qty
InsufficientStock_never(available, qty) == FALSE

InsufficientStock(available, qty) == available < qty

\* the second leg: +qty at to_location
TransferIn_missing(db, item, qty, to_location, reason) == db

TransferIn(db, item, qty, to_location, reason) ==
  _upsert_stock_and_add_movement(db, to_location, item, qty, reason, "transfer", NULL, FALSE, 0)

create_transfer_run(db, item, qty, from_location, to_location, reason, fault) ==
  IF qty <= 0 THEN Fail(db, 400)
  ELSE IF item \notin InventoryItemIds THEN Fail(db, 404)
  ELSE IF ~HasStockRow(db.stock, item, from_location) THEN Fail(db, 409)
  ELSE IF InsufficientStock(Available(db.stock[StockKey(item, from_location)]), qty) THEN Fail(db, 409)
  ELSE
    LET r == IF reason = NULL THEN "TRANSFER" ELSE reason
        out_from == _upsert_stock_and_add_movement(db, from_location, item, -qty, r, "transfer", NULL, FALSE, 0)
    IN IF fault = 1 THEN Fail(db, 500)
       ELSE IF fault = 2 THEN Fail(out_from, 500)
       ELSE Ok(TransferIn(out_from, item, qty, to_location, r), 201)

create_transfer(item, qty, from_location, to_location, fault) ==
  /\ nops < MaxOps
  /\ Finish("create_transfer",
            [inventory_item_id |-> item, quantity |-> qty,
             from_location |-> from_location, to_location |-> to_location, fault |-> fault],
            create_transfer_run(DB, item, qty, from_location, to_location, NULL, fault), << >>)
  /\ UNCHANGED << events, consumed, debited >>

(***************************************************************************)
(* Optional numbers: None is the empty tuple, a value v is << v >>.        *)
(***************************************************************************)
\* a value computed once and used under a name
With(v, F(_)) == F(v)

None == << >>
Some(v) == << v >>
IsNone(x) == x = << >>
Val(x) == x[1]

Min(a, b) == IF a <= b THEN a ELSE b
Max(a, b) == IF a >= b THEN a ELSE b

\* math.ceil(x / y) for y > 0
CeilDiv(x, y) == -((-x) \div y)

RECURSIVE SumOver(_, _)
SumOver(S, f) ==
  IF S = {} THEN 0
  ELSE LET x == CHOOSE y \in S : TRUE IN f[x] + SumOver(S \ {x}, f)

(***************************************************************************)
(* Order generation engine (weekly-by-event).                              *)
(***************************************************************************)
Units == {"ml", "piece", "bottle"}
SupplierIds == {"sup1", NULL}

\* _next_wednesday: dates are day numbers, day 0 is a Monday
_next_wednesday(d) ==
  LET weekday == d % DaysPerWeek
      days_ahead == (WednesdayIndex - weekday) % DaysPerWeek
  IN IF days_ahead = 0 THEN d ELSE d + days_ahead

\* _unit_to_ml for the units of the catalog: "ml" converts, a piece unit does not
_unit_to_ml(quantity, unit) == IF unit = "ml" THEN Some(quantity) ELSE None

\* _load_stock_maps: stock per ingredient in quarter millilitres (bottle items) and in
\* quarter units per (ingredient, unit) (garnish items), over the stock rows of the scope
_load_stock_maps(st, location_scope) ==
  LET rows == {k \in DOMAIN st : location_scope \in {"BAR", "WAREHOUSE"} => k[2] = location_scope}
      mlRows(i) == {k \in rows : /\ InventoryItem[k[1]].item_type = "BOTTLE"
                                 /\ Bottle[InventoryItem[k[1]].bottle_id].ingredient_id = i
                                 /\ Bottle[InventoryItem[k[1]].bottle_id].volume_ml # 0}
      qtyRows(i, u) == {k \in rows : /\ InventoryItem[k[1]].item_type = "GARNISH"
                                     /\ InventoryItem[k[1]].ingredient_id = i
                                     /\ InventoryItem[k[1]].unit = u}
      mlOf == [k \in DOMAIN st |->
                 IF InventoryItem[k[1]].item_type = "BOTTLE"
                   THEN st[k].quantity * Bottle[InventoryItem[k[1]].bottle_id].volume_ml * MenuSize
                   ELSE 0]
      qtyOf == [k \in DOMAIN st |-> st[k].quantity * MenuSize]
  IN [stock_ml |-> [i \in IngredientIds |-> SumOver(mlRows(i), mlOf)],
      stock_qty |-> [k \in IngredientIds \X Units |-> SumOver(qtyRows(k[1], k[2]), qtyOf)]]

\* default bottle of an ingredient (is_default_cost), NULL when it has none
default_bottle(i) ==
  IF \E b \in BottleIds : Bottle[b].ingredient_id = i /\ Bottle[b].is_default_cost
    THEN CHOOSE b \in BottleIds : Bottle[b].ingredient_id = i /\ Bottle[b].is_default_cost
    ELSE NULL

\* the recipe lines of the menu of an event, in menu order
RECURSIVE MenuLines(_)
MenuLines(menu) ==
  IF menu = << >> THEN << >> ELSE RecipeIngredients[Head(menu)] \o MenuLines(Tail(menu))

\* dict[key] = dict.get(key, 0) + amount, keeping insertion order; the bottle is set by the first line
RECURSIVE AddNeed(_, _, _, _, _)
AddNeed(needs, ingredient_id, unit, amount, bottle) ==
  IF needs = << >>
    THEN << [ingredient_id |-> ingredient_id, unit |-> unit, requested |-> amount, bottle |-> bottle] >>
  ELSE IF Head(needs).ingredient_id = ingredient_id /\ Head(needs).unit = unit
    THEN << [Head(needs) EXCEPT !.requested = @ + amount,
                                !.bottle = IF @ = NULL THEN bottle ELSE @] >> \o Tail(needs)
  ELSE << Head(needs) >> \o AddNeed(Tail(needs), ingredient_id, unit, amount, bottle)

\* _compute_event_needs: needs of one event, ml needs and non-ml needs, in quarter units
RECURSIVE NeedsOfLines(_, _, _)
NeedsOfLines(lines, servings4, acc) ==
  IF lines = << >> THEN acc
  ELSE
    LET ri == Head(lines)
        scaled_qty == ri.quantity * servings4
        scaled_ml == _unit_to_ml(scaled_qty, ri.unit)
        cand == IF ri.bottle_id # NULL THEN ri.bottle_id ELSE default_bottle(ri.ingredient_id)
        b == IF cand # NULL /\ Bottle[cand].volume_ml # 0 THEN cand ELSE NULL
        acc2 == IF ~IsNone(scaled_ml)
                  THEN [acc EXCEPT !.ml_need = AddNeed(@, ri.ingredient_id, "ml", Val(scaled_ml), b)]
                  ELSE [acc EXCEPT !.non_ml_need = AddNeed(@, ri.ingredient_id, ri.unit, scaled_qty, NULL)]
    IN NeedsOfLines(Tail(lines), servings4, acc2)

_compute_event_needs(ev) ==
  LET spp == IF ev.servings_per_person = 0 THEN 3 ELSE ev.servings_per_person
      servings4 == ev.people * spp
  IN NeedsOfLines(MenuLines(ev.menu), servings4, [ml_need |-> << >>, non_ml_need |-> << >>])

\* _assign_supplier: the default supplier of the ingredient, NULL when it has none
_assign_supplier(ingredient_id) == Ingredient[ingredient_id].default_supplier_id

EmptyLine ==
  [ingredient_id |-> NULL, requested_ml |-> None, requested_quantity |-> None, requested_unit |-> NULL,
   used_from_stock_ml |-> None, used_from_stock_quantity |-> None,
   needed_ml |-> None, needed_quantity |-> None, unit |-> NULL,
   bottle_id |-> NULL, bottle_volume_ml |-> None, recommended_bottles |-> None, leftover_ml |-> None]

\* an ml line of an EVENT order (orders.py 757-784)
MlLine(ingredient_id, requested, used, shortfall, b) ==
  LET bottle_volume == IF b # NULL THEN Bottle[b].volume_ml ELSE 0
      has == bottle_volume # 0 /\ shortfall > 0
      bottles_needed == IF has THEN CeilDiv(shortfall, bottle_volume * MenuSize) ELSE 0
  IN [EmptyLine EXCEPT
        !.ingredient_id = ingredient_id,
        !.requested_ml = Some(requested),
        !.used_from_stock_ml = Some(used),
        !.needed_ml = Some(shortfall),
        !.bottle_id = b,
        !.bottle_volume_ml = IF bottle_volume # 0 THEN Some(bottle_volume) ELSE None,
        !.recommended_bottles = IF has THEN Some(bottles_needed) ELSE None,
        !.leftover_ml = IF has THEN Some(bottles_needed * bottle_volume * MenuSize - shortfall) ELSE None]

\* a non-ml line of an EVENT order (orders.py 795-813)
QtyLine(ingredient_id, unit, requested, used, shortfall) ==
  [EmptyLine EXCEPT
     !.ingredient_id = ingredient_id,
     !.requested_quantity = Some(requested),
     !.requested_unit = unit,
     !.used_from_stock_quantity = Some(used),
     !.needed_quantity = Some(shortfall),
     !.unit = unit]

\* dict.setdefault(sid, []).append(line), keeping the insertion order of the suppliers
RECURSIVE AddLine(_, _, _)
AddLine(groups, sid, line) ==
  IF groups = << >> THEN << [sid |-> sid, lines |-> << line >>] >>
  ELSE IF Head(groups).sid = sid
    THEN << [Head(groups) EXCEPT !.lines = Append(@, line)] >> \o Tail(groups)
  ELSE << Head(groups) >> \o AddLine(Tail(groups), sid, line)

\* weekly_ml / weekly_qty: sums of requested, used and needed per (supplier, ingredient[, unit])
RECURSIVE AddWeekly_overwriting(_, _, _, _, _, _, _, _)
AddWeekly_overwriting(weekly, sid, ingredient_id, unit, requested, used, shortfall, b) ==
  IF weekly = << >>
    THEN << [sid |-> sid, ingredient_id |-> ingredient_id, unit |-> unit,
             requested |-> requested, used |-> used, needed |-> shortfall, bottle |-> b] >>
  ELSE IF /\ Head(weekly).sid = sid
          /\ Head(weekly).ingredient_id = ingredient_id
          /\ Head(weekly).unit = unit
    THEN << [Head(weekly) EXCEPT !.requested = requested, !.used = used,
                                 !.needed = shortfall] >> \o Tail(weekly)
  ELSE << Head(weekly) >> \o AddWeekly_overwriting(Tail(weekly), sid, ingredient_id, unit, requested, used, shortfall, b)

RECURSIVE AddWeekly(_, _, _, _, _, _, _, _)
AddWeekly(weekly, sid, ingredient_id, unit, requested, used, shortfall, b) ==
  IF weekly = << >>
    THEN << [sid |-> sid, ingredient_id |-> ingredient_id, unit |-> unit,
             requested |-> requested, used |-> used, needed |-> shortfall, bottle |-> b] >>
  ELSE IF /\ Head(weekly).sid = sid
          /\ Head(weekly).ingredient_id = ingredient_id
          /\ Head(weekly).unit = unit
    THEN << [Head(weekly) EXCEPT !.requested = @ + requested, !.used = @ + used,
                                 !.needed = @ + shortfall] >> \o Tail(weekly)
  ELSE << Head(weekly) >> \o AddWeekly(Tail(weekly), sid, ingredient_id, unit, requested, used, shortfall, b)

\* the debit of the running snapshot: used = min(available, requested)
UsedFromStock_ignoring_stock(available, requested) == requested

UsedFromStock(available, requested) == Min(available, requested)

\* the snapshot after the debit: stock_ml[ingredient_id] = available - used
SnapshotAfter_not_debited(available, used) == available

SnapshotAfter(available, used) == available - used

\* sequential depletion over the ml needs of one event (orders.py 757-793)
RECURSIVE AllocateMl(_, _, _)
AllocateMl(acc, ev_id, needs) ==
  IF needs = << >> THEN acc
  ELSE
    LET n == Head(needs)
        available == acc.stock_ml[n.ingredient_id]
        used == UsedFromStock(available, n.requested)
        shortfall == Max(0, n.requested - used)
        sid == _assign_supplier(n.ingredient_id)
        acc2 == [acc EXCEPT
                   !.stock_ml[n.ingredient_id] = SnapshotAfter(available, used),
                   !.groups = AddLine(@, sid, MlLine(n.ingredient_id, n.requested, used, shortfall, n.bottle)),
                   !.weekly_ml = AddWeekly(@, sid, n.ingredient_id, "ml", n.requested, used, shortfall, n.bottle),
                   !.offered = Append(@, [event_id |-> ev_id, ingredient_id |-> n.ingredient_id,
                                          unit |-> "ml", available |-> available,
                                          requested |-> n.requested, used |-> used])]
    IN AllocateMl(acc2, ev_id, Tail(needs))

\* sequential depletion over the non-ml needs of one event (orders.py 795-822)
RECURSIVE AllocateQty(_, _, _)
AllocateQty(acc, ev_id, needs) ==
  IF needs = << >> THEN acc
  ELSE
    LET n == Head(needs)
        key == << n.ingredient_id, n.unit >>
        available == acc.stock_qty[key]
        used == UsedFromStock(available, n.requested)
        shortfall == Max(0, n.requested - used)
        sid == _assign_supplier(n.ingredient_id)
        acc2 == [acc EXCEPT
                   !.stock_qty[key] = SnapshotAfter(available, used),
                   !.groups = AddLine(@, sid, QtyLine(n.ingredient_id, n.unit, n.requested, used, shortfall)),
                   !.weekly_qty = AddWeekly(@, sid, n.ingredient_id, n.unit, n.requested, used, shortfall, NULL),
                   !.offered = Append(@, [event_id |-> ev_id, ingredient_id |-> n.ingredient_id,
                                          unit |-> n.unit, available |-> available,
                                          requested |-> n.requested, used |-> used])]
    IN AllocateQty(acc2, ev_id, Tail(needs))

\* (o.status or "").upper() == "DRAFT"
IsDraft_any(o) == TRUE

IsDraft(o) == o.status = "DRAFT"

\* the Order with the highest id of a set (the last row a query returns wins in a dict)
LastOf(S) == CHOOSE o \in S : \A p \in S : p.id <= o.id

ReplaceOrder(os, id, o) == {p \in os : p.id # id} \cup {o}

\* one step of the idempotent persistence (orders.py 826-881 and 959-1010): skip a frozen
\* order, replace the lines of a DRAFT order in place, or create the order.  A flush is the
\* point where the database can raise; fault is the number of the flush that raises (0: none).
PersistOrder(acc, existing, fresh, lines) ==
  IF acc.failed THEN acc
  ELSE IF existing # {} THEN
    LET ex == LastOf(existing) IN
    IF ~IsDraft(ex) THEN [acc EXCEPT !.skipped = Append(@, ex.id)]
    ELSE IF acc.flushes + 1 = acc.fault
      THEN [acc EXCEPT !.failed = TRUE, !.flushes = @ + 1,
                       !.db.orders = ReplaceOrder(@, ex.id, [ex EXCEPT !.items = << >>])]
      ELSE [acc EXCEPT !.flushes = @ + 1, !.updated = Append(@, ex.id),
                       !.db.orders = ReplaceOrder(@, ex.id, [ex EXCEPT !.items = lines])]
  ELSE
    LET id == acc.db.next_order_id
        o == [fresh EXCEPT !.id = id]
    IN IF acc.flushes + 1 = acc.fault
         THEN [acc EXCEPT !.failed = TRUE, !.flushes = @ + 1,
                          !.db.orders = @ \cup {o}, !.db.next_order_id = @ + 1]
         ELSE [acc EXCEPT !.flushes = @ + 1, !.created = Append(@, id),
                          !.db.orders = @ \cup {[o EXCEPT !.items = lines]},
                          !.db.next_order_id = @ + 1]

NewOrder(scope, event_id, supplier_id, period_start, period_end) ==
  [id |-> 0, scope |-> scope, event_id |-> event_id, supplier_id |-> supplier_id,
   status |-> "DRAFT", period_start |-> period_start, period_end |-> period_end, items |-> << >>]

\* the EVENT orders of one event, one per supplier (orders.py 824-881)
RECURSIVE PersistEventGroups(_, _, _, _, _)
PersistEventGroups(acc, ev_id, ev_date, groups, existing_event_orders) ==
  IF groups = << >> THEN acc
  ELSE
    LET g == Head(groups)
        existing == {o \in existing_event_orders : o.event_id = ev_id /\ o.supplier_id = g.sid}
        acc2 == PersistOrder(acc, existing, NewOrder("EVENT", ev_id, g.sid, ev_date, ev_date), g.lines)
    IN PersistEventGroups(acc2, ev_id, ev_date, Tail(groups), existing_event_orders)

\* the loop over the events of the window, in date order (orders.py 739-916)
RECURSIVE ProcessEvents(_, _, _, _)
ProcessEvents(acc, evs, evseq, existing_event_orders) ==
  IF evseq = << >> \/ acc.failed THEN acc
  ELSE
    LET e == Head(evseq)
        needs == _compute_event_needs(evs[e])
        a1 == AllocateMl([acc EXCEPT !.groups = << >>], e, needs.ml_need)
        a2 == AllocateQty(a1, e, needs.non_ml_need)
        a3 == PersistEventGroups(a2, e, evs[e].event_date, a2.groups, existing_event_orders)
    IN ProcessEvents(a3, evs, Tail(evseq), existing_event_orders)

\* the lines of the WEEKLY summary orders: only sums with a shortfall (orders.py 918-956)
RECURSIVE WeeklyGroups(_, _, _)
WeeklyGroups(weekly_ml, weekly_qty, groups) ==
  IF weekly_ml # << >> THEN
    LET agg == Head(weekly_ml)
        b == agg.bottle
        bottle_volume == IF b # NULL THEN Bottle[b].volume_ml ELSE 0
        bottles_needed == IF bottle_volume # 0 THEN CeilDiv(agg.needed, bottle_volume * MenuSize) ELSE 0
        line == [EmptyLine EXCEPT
                   !.ingredient_id = agg.ingredient_id,
                   !.requested_ml = Some(agg.requested),
                   !.used_from_stock_ml = Some(agg.used),
                   !.needed_ml = Some(agg.needed),
                   !.bottle_id = b,
                   !.bottle_volume_ml = IF bottle_volume # 0 THEN Some(bottle_volume) ELSE None,
                   !.recommended_bottles = IF bottle_volume # 0 THEN Some(bottles_needed) ELSE None,
                   !.leftover_ml = IF bottle_volume # 0
                                     THEN Some(bottles_needed * bottle_volume * MenuSize - agg.needed)
                                     ELSE None]
    IN WeeklyGroups(Tail(weekly_ml), weekly_qty,
                    IF agg.needed <= 0 THEN groups ELSE AddLine(groups, agg.sid, line))
  ELSE IF weekly_qty # << >> THEN
    LET agg == Head(weekly_qty)
        line == QtyLine(agg.ingredient_id, agg.unit, agg.requested, agg.used, agg.needed)
    IN WeeklyGroups(weekly_ml, Tail(weekly_qty),
                    IF agg.needed <= 0 THEN groups ELSE AddLine(groups, agg.sid, line))
  ELSE groups

\* the WEEKLY orders, one per supplier with a shortfall (orders.py 958-1010)
RECURSIVE PersistWeeklyGroups(_, _, _, _, _)
PersistWeeklyGroups(acc, groups, start, end, existing_weekly_orders) ==
  IF groups = << >> THEN acc
  ELSE
    LET g == Head(groups)
        existing == {o \in existing_weekly_orders : o.supplier_id = g.sid}
        acc2 == PersistOrder(acc, existing, NewOrder("WEEKLY", NULL, g.sid, start, end), g.lines)
    IN PersistWeeklyGroups(acc2, Tail(groups), start, end, existing_weekly_orders)

\* cleanup of stale DRAFT orders (orders.py 1040-1053)
Cleanup_all_statuses(os, existing_event_orders, existing_weekly_orders, event_ids_in_window, weekly_sids) ==
  LET staleEvent == {o \in existing_event_orders :
                       o.event_id = NULL \/ o.event_id \notin event_ids_in_window}
      staleWeekly == {o \in existing_weekly_orders : o.supplier_id \notin weekly_sids}
      staleIds == {o.id : o \in staleEvent \cup staleWeekly}
  IN {o \in os : o.id \notin staleIds}

Cleanup_skipped(os, existing_event_orders, existing_weekly_orders, event_ids_in_window, weekly_sids) == os

Cleanup(os, existing_event_orders, existing_weekly_orders, event_ids_in_window, weekly_sids) ==
  LET staleEvent == {o \in existing_event_orders :
                       IsDraft(o) /\ (o.event_id = NULL \/ o.event_id \notin event_ids_in_window)}
      staleWeekly == {o \in existing_weekly_orders : IsDraft(o) /\ o.supplier_id \notin weekly_sids}
      staleIds == {o.id : o \in staleEvent \cup staleWeekly}
  IN {o \in os : o.id \notin staleIds}

\* row order of the events table: breaks ties of ORDER BY event_date
EventRank(e) == IF e = "e1" THEN 1 ELSE 2

\* the events of the window ordered by event_date ascending (orders.py 604-611)
RECURSIVE SortedEvents(_, _)
SortedEvents(evs, ids) ==
  IF ids = {} THEN << >>
  ELSE
    LET first == CHOOSE e \in ids : \A f \in ids :
                   \/ evs[e].event_date < evs[f].event_date
                   \/ (evs[e].event_date = evs[f].event_date /\ EventRank(e) <= EventRank(f))
    IN << first >> \o SortedEvents(evs, ids \ {first})

GroupSids(groups) == {groups[k].sid : k \in 1..Len(groups)}

\* the EVENT orders loaded for the idempotency cache (orders.py 663-670)
ExistingEventOrders_after_start(os, start, end) ==
  {o \in os : o.scope = "EVENT" /\ o.period_start > start /\ o.period_end <= end}

ExistingEventOrders(os, start, end) ==
  {o \in os : o.scope = "EVENT" /\ o.period_start >= start /\ o.period_end <= end}

\* what the session of a run holds when it commits: the orders it wrote; the running
\* snapshot stock_ml / stock_qty is a pair of dicts and belongs to no row (orders.py 650-651)
Flushed_with_snapshot(a) ==
  [a.db EXCEPT !.stock = [key \in DOMAIN @ |-> [@[key] EXCEPT !.quantity = 0]]]

Flushed(a) == a.db

\* generate_weekly_orders_by_event: the whole handler on the database db
generate_run(db, evs, start, location_scope, fault) ==
  LET end == _next_wednesday(start)
      event_ids_in_window == {e \in DOMAIN evs : evs[e].event_date >= start /\ evs[e].event_date <= end}
      evseq == SortedEvents(evs, event_ids_in_window)
      maps == _load_stock_maps(db.stock, location_scope)
      existing_event_orders == ExistingEventOrders(db.orders, start, end)
      existing_weekly_orders == {o \in db.orders : /\ o.scope = "WEEKLY"
                                                   /\ o.period_start = start
                                                   /\ o.period_end = end}
      acc0 == [db |-> db, stock_ml |-> maps.stock_ml, stock_qty |-> maps.stock_qty,
               groups |-> << >>, weekly_ml |-> << >>, weekly_qty |-> << >>, offered |-> << >>,
               flushes |-> 0, fault |-> fault, failed |-> FALSE,
               created |-> << >>, updated |-> << >>, skipped |-> << >>]
  IN
  IF evseq = << >> THEN
    [ok |-> TRUE, status |-> 201, offered |-> << >>,
     created |-> << >>, updated |-> << >>, skipped |-> << >>,
     db |-> [db EXCEPT !.orders =
               {o \in @ : ~(o \in existing_event_orders \cup existing_weekly_orders /\ IsDraft(o))}]]
  ELSE
    With(ProcessEvents(acc0, evs, evseq, existing_event_orders), LAMBDA a1 :
    With(WeeklyGroups(a1.weekly_ml, a1.weekly_qty, << >>), LAMBDA weekly_suppliers :
    With(PersistWeeklyGroups(a1, weekly_suppliers, start, end, existing_weekly_orders), LAMBDA a2 :
      IF a2.failed
        THEN [ok |-> FALSE, status |-> 500, offered |-> a2.offered,
              created |-> a2.created, updated |-> a2.updated, skipped |-> a2.skipped, db |-> a2.db]
        ELSE [ok |-> TRUE, status |-> 201, offered |-> a2.offered,
              created |-> a2.created, updated |-> a2.updated, skipped |-> a2.skipped,
              db |-> [Flushed(a2) EXCEPT !.orders =
                        Cleanup(@, existing_event_orders, existing_weekly_orders,
                                event_ids_in_window, GroupSids(weekly_suppliers))]])))

(***************************************************************************)
(* Event consumption and its reversal.                                     *)
(***************************************************************************)
EventName(ev) == IF ev.name = NULL THEN "" ELSE ev.name

_default_event_consumed_reason(ev_id, ev) ==
  IF EventName(ev) # "" THEN "Event consumed: " \o EventName(ev) \o " (" \o ev_id \o ")"
  ELSE "Event consumed: " \o ev_id

_default_event_unconsumed_reason(ev_id, ev) ==
  IF EventName(ev) # "" THEN "Event unconsumed: " \o EventName(ev) \o " (" \o ev_id \o ")"
  ELSE "Event unconsumed: " \o ev_id

_legacy_event_reason_candidates(ev_id, ev) ==
  {"Event consumed: " \o ev_id} \cup
  (IF EventName(ev) # "" THEN {"Event consumed: " \o EventName(ev)} ELSE {})

\* ids of the non-reversed movements tagged as the consumption of the event
TaggedConsumeIds_wrong_type(mvs, ev_id) ==
  {k \in 1..Len(mvs) : /\ mvs[k].source_event_id = ev_id
                       /\ mvs[k].source_type = "event"
                       /\ ~mvs[k].is_reversed}

TaggedConsumeIds_with_reversed(mvs, ev_id) ==
  {k \in 1..Len(mvs) : /\ mvs[k].source_event_id = ev_id
                       /\ mvs[k].source_type = "event_consume"}

TaggedConsumeIds(mvs, ev_id) ==
  {k \in 1..Len(mvs) : /\ mvs[k].source_event_id = ev_id
                       /\ mvs[k].source_type = "event_consume"
                       /\ ~mvs[k].is_reversed}

\* ids of the non-reversed legacy consumption movements of the event (matched by reason)
LegacyConsumeIds(mvs, ev_id, ev) ==
  {k \in 1..Len(mvs) : /\ mvs[k].source_event_id = NULL
                       /\ mvs[k].source_type \in {NULL, "event"}
                       /\ ~mvs[k].is_reversed
                       /\ ~mvs[k].is_reversal
                       /\ mvs[k].change < 0
                       /\ mvs[k].reason \in _legacy_event_reason_candidates(ev_id, ev)}

\* the Order rows of a set as a sequence, in id order
RECURSIVE OrdersInIdOrder(_)
OrdersInIdOrder(os) ==
  IF os = {} THEN << >>
  ELSE LET o == CHOOSE p \in os : \A q \in os : p.id <= q.id
       IN << o >> \o OrdersInIdOrder(os \ {o})

RECURSIVE AllItems(_)
AllItems(oseq) == IF oseq = << >> THEN << >> ELSE Head(oseq).items \o AllItems(Tail(oseq))

\* deltas_by_item[item] = deltas_by_item.get(item, 0) + delta, keeping insertion order
RECURSIVE AddDelta(_, _, _)
AddDelta(deltas, item, delta) ==
  IF deltas = << >> THEN << [item |-> item, delta |-> delta] >>
  ELSE IF Head(deltas).item = item
    THEN << [Head(deltas) EXCEPT !.delta = @ + delta] >> \o Tail(deltas)
  ELSE << Head(deltas) >> \o AddDelta(Tail(deltas), item, delta)

BottleItems(bottle_id) ==
  {it \in InventoryItemIds : InventoryItem[it].item_type = "BOTTLE" /\ InventoryItem[it].bottle_id = bottle_id}
GarnishItems(ingredient_id) ==
  {it \in InventoryItemIds : InventoryItem[it].item_type = "GARNISH"
                             /\ InventoryItem[it].ingredient_id = ingredient_id}

\* bottles deducted for a bottle-backed line: int(requested_ml / volume_ml), partial bottles dropped
BottlesUsed_rounded_up(requested, volume_ml) == CeilDiv(requested, volume_ml * MenuSize)

BottlesUsed(requested, volume_ml) == TruncDiv(requested, volume_ml * MenuSize)

\* the aggregation of the deltas per inventory item over the order lines (inventory.py 1097-1171);
\* the result is [status, deltas], status 0 when no line raised
RECURSIVE AggregateDeltas(_, _)
AggregateDeltas(items, deltas) ==
  IF items = << >> THEN [status |-> 0, deltas |-> deltas]
  ELSE
    LET it == Head(items)
        fallback == IsNone(it.requested_ml) /\ IsNone(it.requested_quantity)
        requested_ml == IF fallback THEN it.needed_ml ELSE it.requested_ml
        requested_qty == IF fallback THEN it.needed_quantity ELSE it.requested_quantity
    IN
    IF IsNone(requested_ml) /\ IsNone(requested_qty) THEN AggregateDeltas(Tail(items), deltas)
    ELSE IF it.bottle_id # NULL THEN
      IF it.bottle_id \notin BottleIds \/ Bottle[it.bottle_id].volume_ml = 0
        THEN [status |-> 409, deltas |-> deltas]
      ELSE IF BottleItems(it.bottle_id) = {} THEN [status |-> 409, deltas |-> deltas]
      ELSE IF IsNone(requested_ml) THEN [status |-> 400, deltas |-> deltas]
      ELSE AggregateDeltas(Tail(items),
             AddDelta(deltas, CHOOSE i \in BottleItems(it.bottle_id) : TRUE,
                      -BottlesUsed(Val(requested_ml), Bottle[it.bottle_id].volume_ml)))
    ELSE IF it.ingredient_id = NULL THEN AggregateDeltas(Tail(items), deltas)
    ELSE IF GarnishItems(it.ingredient_id) = {} THEN [status |-> 409, deltas |-> deltas]
    ELSE AggregateDeltas(Tail(items),
           AddDelta(deltas, CHOOSE i \in GarnishItems(it.ingredient_id) : TRUE,
                    IF ~IsNone(requested_ml) THEN -TruncDiv(Val(requested_ml), MenuSize)
                                             ELSE -TruncDiv(Val(requested_qty), MenuSize)))

AvailableAt(st, item, loc) ==
  IF HasStockRow(st, item, loc) THEN Available(st[StockKey(item, loc)]) ELSE 0

\* the part of a need taken from one location: min(available, need)
TakeFrom_uncapped(avail, need) == need

TakeFrom(avail, need) == Min(avail, need)

\* location=ALL: WAREHOUSE first, then BAR (inventory.py 1189-1239); stock_map is the stock
\* read before the loop
RECURSIVE ConsumeAll(_, _, _, _, _)
ConsumeAll(db, stock_map, deltas, reason, ev_id) ==
  IF deltas = << >> THEN Ok(db, 201)
  ELSE
    LET d == Head(deltas)
        need == -d.delta
        wh_avail == AvailableAt(stock_map, d.item, "WAREHOUSE")
        bar_avail == AvailableAt(stock_map, d.item, "BAR")
        total_avail == wh_avail + bar_avail
        take_wh == TakeFrom(wh_avail, need)
        remaining == need - take_wh
        take_bar == TakeFrom(bar_avail, remaining)
        db1 == IF take_wh # 0
                 THEN _upsert_stock_and_add_movement(db, "WAREHOUSE", d.item, -take_wh, reason,
                                                     "event_consume", ev_id, FALSE, 0)
                 ELSE db
        db2 == IF take_bar # 0
                 THEN _upsert_stock_and_add_movement(db1, "BAR", d.item, -take_bar, reason,
                                                     "event_consume", ev_id, FALSE, 0)
                 ELSE db1
    IN IF d.delta = 0 THEN ConsumeAll(db, stock_map, Tail(deltas), reason, ev_id)
       ELSE IF d.delta > 0 THEN Fail(db, 400)
       ELSE IF total_avail < need THEN Fail(db, 409)
       ELSE ConsumeAll(db2, stock_map, Tail(deltas), reason, ev_id)

\* a single location: the whole delta at that location (inventory.py 1240-1256)
RECURSIVE ConsumeAt(_, _, _, _, _)
ConsumeAt(db, loc, deltas, reason, ev_id) ==
  IF deltas = << >> THEN Ok(db, 201)
  ELSE
    LET d == Head(deltas)
        db1 == IF d.delta = 0 THEN db
               ELSE _upsert_stock_and_add_movement(db, loc, d.item, d.delta, reason,
                                                   "event_consume", ev_id, FALSE, 0)
    IN ConsumeAt(db1, loc, Tail(deltas), reason, ev_id)

\* consume_event_from_stock: the whole handler on the database db
consume_event_from_stock_run(db, evs, ev_id, location) ==
  IF TaggedConsumeIds(db.movements, ev_id) # {} THEN Fail(db, 409)
  ELSE IF ev_id \notin DOMAIN evs THEN Fail(db, 404)
  ELSE IF LegacyConsumeIds(db.movements, ev_id, evs[ev_id]) # {} THEN Fail(db, 409)
  ELSE
    LET event_orders == {o \in db.orders : o.scope = "EVENT" /\ o.event_id = ev_id}
        agg == AggregateDeltas(AllItems(OrdersInIdOrder(event_orders)), << >>)
        reason == _default_event_consumed_reason(ev_id, evs[ev_id])
    IN IF event_orders = {} THEN Fail(db, 409)
       ELSE IF agg.status # 0 THEN Fail(db, agg.status)
       ELSE IF location = "ALL" THEN ConsumeAll(db, db.stock, agg.deltas, reason, ev_id)
       ELSE ConsumeAt(db, location, agg.deltas, reason, ev_id)

\* the change of a reversal movement: delta = -int(mv.change)
ReversalDelta_same_sign(mv) == mv.change

ReversalDelta(mv) == -mv.change

\* the reversal of the movements to_reverse, in id order (inventory.py 1329-1352)
RECURSIVE ReverseAll(_, _, _, _)
ReverseAll(db, to_reverse, reason, ev_id) ==
  IF to_reverse = {} THEN db
  ELSE
    LET k == CHOOSE i \in to_reverse : \A j \in to_reverse : i <= j
        mv == db.movements[k]
        marked == [db EXCEPT !.movements[k] =
                     [mv EXCEPT !.source_event_id = IF @ = NULL THEN ev_id ELSE @,
                                !.source_type = IF @ \in {NULL, "", "event"} THEN "event_consume" ELSE @,
                                !.is_reversed = TRUE]]
        db1 == _upsert_stock_and_add_movement(marked, mv.location, mv.inventory_item_id,
                                              ReversalDelta(mv), reason, "event_unconsume", ev_id, TRUE, k)
    IN ReverseAll(db1, to_reverse \ {k}, reason, ev_id)

\* unconsume_event_from_stock: the whole handler on the database db
unconsume_event_from_stock_run(db, evs, ev_id, location) ==
  IF ev_id \notin DOMAIN evs THEN Fail(db, 404)
  ELSE
    LET inLoc(k) == location \in {"BAR", "WAREHOUSE"} => db.movements[k].location = location
        tagged == {k \in TaggedConsumeIds(db.movements, ev_id) : inLoc(k)}
        legacy == {k \in LegacyConsumeIds(db.movements, ev_id, evs[ev_id]) : inLoc(k)}
        to_reverse == IF tagged # {} THEN tagged ELSE legacy
    IN IF to_reverse = {} THEN Fail(db, 409)
       ELSE Ok(ReverseAll(db, to_reverse, _default_event_unconsumed_reason(ev_id, evs[ev_id]), ev_id), 201)

\* event_consumption_status
event_consumption_status(mvs, evs, ev_id) ==
  IF TaggedConsumeIds(mvs, ev_id) # {} THEN TRUE
  ELSE IF ev_id \notin DOMAIN evs THEN FALSE
  ELSE LegacyConsumeIds(mvs, ev_id, evs[ev_id]) # {}

\* update_order: PATCH of the status of an order (orders.py 288-305)
update_order_run(db, order_id, status) ==
  IF ~\E o \in db.orders : o.id = order_id THEN Fail(db, 404)
  ELSE LET o == CHOOSE p \in db.orders : p.id = order_id
       IN Ok([db EXCEPT !.orders = ReplaceOrder(@, order_id, [o EXCEPT !.status = status])], 200)

(***************************************************************************)
(* Database sessions of concurrent requests (db/database.py 65-70): every  *)
(* request has its own session and transaction.                            *)
(***************************************************************************)
Sessions == {"s1", "s2"}

\* a session without a transaction: op is the request, plan the movement rows the handler
\* adds with their stock upserts, written the number of upserts executed, marked the
\* movement rows the handler changed, own the uncommitted stock row versions of the
\* transaction (it holds their row locks), inserted the pairs whose row it inserted
IdleSession ==
  [pc |-> "idle", req |-> << >>, ok |-> FALSE, status |-> 0, plan |-> << >>, written |-> 0,
   marked |-> << >>, own |-> << >>, inserted |-> {}, overlapped |-> FALSE]

(***************************************************************************)
(* Initial states: the two events of the calendar, a ledger holding only   *)
(* stock-in postings made through create_movement, and no orders, the     *)
(* orders of one generation run, or those orders after they were sent.     *)
(***************************************************************************)
InitEvents ==
  [e \in EventIds |->
     IF e = "e1"
       THEN [name |-> "Party", event_date |-> 1, people |-> 3, servings_per_person |-> 3,
             menu |-> << "c_gimlet", "c_martini", "c_martini", "c_martini" >>]
       ELSE [name |-> NULL, event_date |-> 2, people |-> 1, servings_per_person |-> 3,
             menu |-> << "c_martini", "c_martini", "c_martini", "c_martini" >>]]

\* postings made through create_movement before the first request of a behaviour; the last
\* ledger holds a consumption of the time before tagging, which left BAR one bottle short
Posting(loc, item, n) == [location |-> loc, inventory_item_id |-> item, change |-> Whole(n),
                          reason |-> NULL, source_type |-> NULL]

\* a consumption of event e2 written before movements were tagged with their event
LegacyConsumption(loc, item, n) ==
  [Posting(loc, item, -n) EXCEPT !.reason = "Event consumed: e2", !.source_type = "event"]

SeedPostings ==
  { << >>,
    << Posting("WAREHOUSE", "it_gin", 1), Posting("BAR", "it_gin", 2), Posting("BAR", "it_lime", 2) >>,
    << Posting("WAREHOUSE", "it_gin", 2), Posting("WAREHOUSE", "it_lime", 1) >>,
    << Posting("WAREHOUSE", "it_gin", 15) >>,
    << Posting("WAREHOUSE", "it_gin", 3), LegacyConsumption("BAR", "it_gin", 1),
       Posting("WAREHOUSE", "it_lime", 2) >> }

RECURSIVE Seeded(_, _)
Seeded(db, postings) ==
  IF postings = << >> THEN db
  ELSE LET p == Head(postings)
       IN Seeded(create_movement_run(db, p.location, p.inventory_item_id, p.change, p.reason,
                                     p.source_type).db, Tail(postings))

EmptyDB == [stock |-> << >>, movements |-> << >>, orders |-> {}, next_order_id |-> 1]

\* the request that generated the orders a behaviour starts with
SeedWindow == [order_date |-> 1, location_scope |-> "ALL"]

\* the orders of a database after each of them was sent to its supplier (update_order)
RECURSIVE SentAll(_, _)
SentAll(db, ids) ==
  IF ids = {} THEN db
  ELSE LET id == CHOOSE i \in ids : TRUE
       IN SentAll(update_order_run(db, id, "SENT").db, ids \ {id})

\* update_event: PATCH of the date or of the menu of an event (events.py 155-201); a field
\* that is not set in the payload is None
update_event_run(evs, ev_id, event_date, cocktail_names) ==
  IF ev_id \notin DOMAIN evs THEN [ok |-> FALSE, status |-> 404, events |-> evs]
  ELSE IF ~IsNone(cocktail_names) /\ (\E k \in 1..Len(Val(cocktail_names)) : Val(cocktail_names)[k] \notin CocktailIds)
    THEN [ok |-> FALSE, status |-> 400, events |-> evs]
  ELSE IF ~IsNone(cocktail_names) /\ Len(Val(cocktail_names)) # 4
    THEN [ok |-> FALSE, status |-> 400, events |-> evs]
  ELSE [ok |-> TRUE, status |-> 200,
        events |-> [evs EXCEPT
                      ![ev_id].event_date = IF IsNone(event_date) THEN @ ELSE Val(event_date),
                      ![ev_id].menu = IF IsNone(cocktail_names) THEN @ ELSE Val(cocktail_names)]]

SeedOrders == {"none", "draft", "sent", "stale", "consumed", "legacy"}

\* the postings of the behaviour that starts with order lines of an older version
LegacyLinePostings == << >>

\* an order line as an older version wrote it: needed_* only, requested_* never populated
LegacyLine(line) ==
  [line EXCEPT !.requested_ml = None, !.requested_quantity = None, !.requested_unit = NULL]

\* the orders with every line as an older version wrote it
LegacyLines(os) ==
  {[o EXCEPT !.items = [k \in 1..Len(o.items) |-> LegacyLine(o.items[k])]] : o \in os}

\* the postings of the behaviour that starts after event e1 was consumed over all locations
ConsumedPostings ==
  << Posting("WAREHOUSE", "it_gin", 1), Posting("BAR", "it_gin", 2), Posting("BAR", "it_lime", 2) >>

\* the event consumed before the first request of that behaviour
ConsumedEvent == "e1"

\* the date both events were moved to in the behaviour that starts with stale orders
StaleDate == 3

\* the postings of the behaviour that starts with stale orders
StalePostings == << Posting("WAREHOUSE", "it_gin", 2), Posting("WAREHOUSE", "it_lime", 1) >>

\* the events after both were rescheduled past the window of the generated orders
RECURSIVE Rescheduled(_, _, _)
Rescheduled(evs, ids, event_date) ==
  IF ids = {} THEN evs
  ELSE LET e == CHOOSE f \in ids : TRUE
       IN Rescheduled(update_event_run(evs, e, Some(event_date), None).events, ids \ {e}, event_date)

Init ==
  \E postings \in SeedPostings, seed_orders \in SeedOrders :
    With(Seeded(EmptyDB, postings), LAMBDA seeded :
    With(generate_run(seeded, InitEvents, SeedWindow.order_date, SeedWindow.location_scope, 0), LAMBDA run :
    With(IF seed_orders = "none" THEN seeded
         ELSE IF seed_orders \in {"draft", "stale"} THEN run.db
         ELSE IF seed_orders = "legacy" THEN [run.db EXCEPT !.orders = LegacyLines(@)]
         ELSE IF seed_orders = "consumed"
           THEN Committed(run.db, consume_event_from_stock_run(run.db, InitEvents, ConsumedEvent, "ALL"))
         ELSE SentAll(run.db, {o.id : o \in run.db.orders}), LAMBDA db :
      /\ seed_orders = "stale" => postings = StalePostings
      /\ seed_orders = "consumed" => postings = ConsumedPostings
      /\ seed_orders = "legacy" => postings = LegacyLinePostings
      /\ stock = db.stock
      /\ movements = db.movements
      /\ orders = db.orders
      /\ next_order_id = db.next_order_id
      /\ events = IF seed_orders = "stale"
                    THEN Rescheduled(InitEvents, EventIds, StaleDate) ELSE InitEvents
      /\ last = IF seed_orders = "draft"
                  THEN [op |-> "generate", status |-> run.status,
                        args |-> SeedWindow,
                        out |-> [offered |-> run.offered, created |-> run.created,
                                 updated |-> run.updated, skipped |-> run.skipped],
                        dirty |-> run.db # seeded]
                  ELSE [op |-> "init", status |-> 0, args |-> << >>, out |-> << >>, dirty |-> FALSE]
      /\ nops = 0
      /\ consumed = IF seed_orders = "consumed" THEN {ConsumedEvent} ELSE {}
      /\ debited = IF seed_orders = "consumed" /\ Len(db.movements) > Len(seeded.movements)
                     THEN {ConsumedEvent} ELSE {}
      /\ sessions = [s \in Sessions |-> IdleSession]
      /\ applied = << >>
      /\ stock0 = db.stock)))

(***************************************************************************)
(* Requests.                                                               *)
(***************************************************************************)
ConsumeLocations == {"ALL", "BAR", "WAREHOUSE"}
OrderDates == {1, 3}
LocationScopes == {"ALL", "BAR"}
Faults == {0, 2}
NewStatuses == {"SENT"}

consume_event_from_stock(ev_id, location) ==
  With(consume_event_from_stock_run(DB, events, ev_id, location), LAMBDA res :
    /\ nops < MaxOps
    /\ Finish("consume", [event_id |-> ev_id, location |-> location], res, stock)
    /\ consumed' = IF res.ok THEN consumed \cup {ev_id} ELSE consumed
    /\ debited' = IF res.ok /\ Len(res.db.movements) > Len(movements)
                    THEN debited \cup {ev_id} ELSE debited
    /\ UNCHANGED events)

unconsume_event_from_stock(ev_id, location) ==
  With(unconsume_event_from_stock_run(DB, events, ev_id, location), LAMBDA res :
    /\ nops < MaxOps
    /\ Finish("unconsume", [event_id |-> ev_id, location |-> location], res, << >>)
    /\ consumed' = IF res.ok THEN consumed \ {ev_id} ELSE consumed
    /\ debited' = IF res.ok THEN debited \ {ev_id} ELSE debited
    /\ UNCHANGED events)

generate_weekly_orders_by_event(order_date, location_scope, fault) ==
  With(generate_run(DB, events, order_date, location_scope, fault), LAMBDA res :
    /\ nops < MaxOps
    /\ Finish("generate", [order_date |-> order_date, location_scope |-> location_scope], res,
              [offered |-> res.offered, created |-> res.created, updated |-> res.updated,
               skipped |-> res.skipped])
    /\ UNCHANGED << events, consumed, debited >>)

update_order(order_id, status) ==
  /\ nops < MaxOps
  /\ Finish("update_order", << >>, update_order_run(DB, order_id, status), << >>)
  /\ UNCHANGED << events, consumed, debited >>

\* the dates an event is moved to
EventDates == {1, 3}

\* the menu an event is changed to
NewMenu == << "c_martini", "c_martini", "c_martini", "c_martini" >>

\* the payloads of update_event: a new date, or a new menu
EventUpdates ==
  {[event_date |-> Some(d), cocktail_names |-> None] : d \in EventDates}
    \cup {[event_date |-> None, cocktail_names |-> Some(NewMenu)]}

update_event(ev_id, payload) ==
  With(update_event_run(events, ev_id, payload.event_date, payload.cocktail_names), LAMBDA res :
    /\ nops < MaxOps
    /\ Finish("update_event", << >>, [ok |-> res.ok, status |-> res.status, db |-> DB], << >>)
    /\ events' = res.events
    /\ UNCHANGED << consumed, debited >>)

\* the regeneration of the affected windows, each in its own transaction (events.py 238-243)
RECURSIVE Regenerate(_, _, _)
Regenerate(db, evs, week_starts) ==
  IF week_starts = {} THEN db
  ELSE LET ws == CHOOSE d \in week_starts : \A f \in week_starts : d <= f
       IN Regenerate(Committed(db, generate_run(db, evs, ws, "ALL", 0)), evs, week_starts \ {ws})

\* delete_event: the EVENT orders of the event and the event are deleted, then the windows
\* of the DRAFT WEEKLY orders that cover its date are regenerated (events.py 204-244)
delete_event_run(db, evs, ev_id) ==
  IF ev_id \notin DOMAIN evs THEN [ok |-> FALSE, status |-> 404, db |-> db, events |-> evs]
  ELSE
    LET e == evs[ev_id]
        affected_week_starts == {o.period_start : o \in {p \in db.orders :
                                   /\ p.scope = "WEEKLY" /\ p.status = "DRAFT"
                                   /\ p.period_start <= e.event_date
                                   /\ p.period_end >= e.event_date}}
        db1 == [db EXCEPT !.orders = {o \in @ : ~(o.scope = "EVENT" /\ o.event_id = ev_id)}]
        evs1 == [f \in DOMAIN evs \ {ev_id} |-> evs[f]]
    IN [ok |-> TRUE, status |-> 204, db |-> Regenerate(db1, evs1, affected_week_starts),
        events |-> evs1]

delete_event(ev_id) ==
  With(delete_event_run(DB, events, ev_id), LAMBDA res :
    /\ nops < MaxOps
    /\ Finish("delete_event", << >>, res, << >>)
    /\ events' = res.events
    /\ UNCHANGED << consumed, debited >>)

Next ==
  \/ \E loc \in Locations, item \in InventoryItemIds, input \in LedgerInputs :
       create_movement(loc, item, input[1], input[2], NULL)
  \/ \E item \in TransferItems, qty \in TransferQuantities,
        f \in Locations, t \in Locations, fault \in TransferFaults :
       create_transfer(item, qty, f, t, fault)
  \/ \E e \in EventIds \cup {GhostEventId}, loc \in ConsumeLocations :
       consume_event_from_stock(e, loc)
  \/ \E e \in EventIds \cup {GhostEventId}, loc \in ConsumeLocations :
       unconsume_event_from_stock(e, loc)
  \/ \E d \in OrderDates, scope \in LocationScopes, fault \in Faults :
       generate_weekly_orders_by_event(d, scope, fault)
  \/ \E id \in 1..next_order_id, status \in NewStatuses :
       update_order(id, status)
  \/ \E e \in EventIds \cup {GhostEventId}, payload \in EventUpdates :
       update_event(e, payload)
  \/ \E e \in EventIds \cup {GhostEventId} :
       delete_event(e)

Spec == Init /\ [][Next]_vars

\* the generic movement entry alone, with every kind of change and reason
MovementNext ==
  \E loc \in Locations, item \in InventoryItemIds \cup {GhostItemId}, input \in MovementInputs :
    create_movement(loc, item, input[1], input[2], NULL)

MovementSpec == Init /\ [][MovementNext]_vars

\* movements sent to the generic entry with the reason text of a consumption: the change,
\* the reason and the source_type of the payload
ConsumptionLikeInputs ==
  { << Whole(-1), "Event consumed: Party", NULL >>, << Whole(-1), "Event consumed: e2", "event" >>,
    << Whole(2), "Event consumed: Party", NULL >>, << Whole(-1), "Event consumed: Party", "event_consume" >>,
    << Whole(-1), "Event consumed: Party (e1)", NULL >>, << Whole(-1), NULL, NULL >> }

\* the generic movement entry with such payloads, among transfers, consume and unconsume
ManualNext ==
  \/ \E loc \in Locations, item \in InventoryItemIds, input \in ConsumptionLikeInputs :
       create_movement(loc, item, input[1], input[2], input[3])
  \/ \E item \in TransferItems, qty \in TransferQuantities,
        f \in Locations, t \in Locations, fault \in TransferFaults :
       create_transfer(item, qty, f, t, fault)
  \/ \E e \in EventIds, loc \in ConsumeLocations :
       consume_event_from_stock(e, loc)
  \/ \E e \in EventIds, loc \in ConsumeLocations :
       unconsume_event_from_stock(e, loc)

ManualSpec == Init /\ [][ManualNext]_vars

(***************************************************************************)
(* Deletion of a bottle of the catalogue.  The row is deleted with         *)
(* db.delete; the foreign keys do the rest: inventory_items.bottle_id,     *)
(* inventory_stock.inventory_item_id and                                    *)
(* inventory_movements.inventory_item_id are ON DELETE CASCADE, and        *)
(* order_items.bottle_id is ON DELETE SET NULL.  The catalogue is a        *)
(* constant of this model, so the deletion is the last request of a        *)
(* behaviour.                                                              *)
(***************************************************************************)
\* the movements that are left when the rows of items are deleted; the id of a row is its
\* index, so the links between the rows that are left are renumbered with them
RowsWithoutItems(mvs, items) ==
  LET kept == {k \in 1..Len(mvs) : mvs[k].inventory_item_id \notin items}
      NewId(k) == Cardinality({j \in kept : j <= k})
      Old(n) == CHOOSE k \in kept : NewId(k) = n
  IN [n \in 1..Cardinality(kept) |->
        [mvs[Old(n)] EXCEPT !.reversal_of_id = IF @ \in kept THEN NewId(@) ELSE 0]]

\* order_items.bottle_id of the deleted bottle is set to NULL
ItemsWithoutBottle(items, bottle_id) ==
  [k \in 1..Len(items) |-> [items[k] EXCEPT !.bottle_id = IF @ = bottle_id THEN NULL ELSE @]]

\* delete_bottle: the whole handler on the database db (ingredients.py 384-398)
delete_bottle_run(db, bottle_id) ==
  IF bottle_id \notin BottleIds THEN Fail(db, 404)
  ELSE
    LET items == {it \in InventoryItemIds : InventoryItem[it].bottle_id = bottle_id}
    IN Ok([db EXCEPT
             !.stock = [key \in {q \in DOMAIN @ : q[1] \notin items} |-> @[key]],
             !.movements = RowsWithoutItems(@, items),
             !.orders = {[o EXCEPT !.items = ItemsWithoutBottle(@, bottle_id)] : o \in @}],
          204)

\* a bottle id that references no bottle
GhostBottleId == "b_ghost"

delete_bottle(bottle_id) ==
  With(delete_bottle_run(DB, bottle_id), LAMBDA res :
    /\ nops + 1 = MaxOps
    /\ Finish("delete_bottle", [bottle_id |-> bottle_id], res, << >>)
    /\ UNCHANGED << events, consumed, debited >>)

\* the requests that write the ledger, and the deletion of a bottle
CatalogNext ==
  \/ \E loc \in Locations, item \in InventoryItemIds, input \in LedgerInputs :
       create_movement(loc, item, input[1], input[2], NULL)
  \/ \E item \in TransferItems, qty \in TransferQuantities,
        f \in Locations, t \in Locations, fault \in TransferFaults :
       create_transfer(item, qty, f, t, fault)
  \/ \E e \in EventIds \cup {GhostEventId}, loc \in ConsumeLocations :
       consume_event_from_stock(e, loc)
  \/ \E e \in EventIds \cup {GhostEventId}, loc \in ConsumeLocations :
       unconsume_event_from_stock(e, loc)
  \/ \E b \in BottleIds \cup {GhostBottleId} :
       delete_bottle(b)

CatalogSpec == Init /\ [][CatalogNext]_vars

(***************************************************************************)
(* Concurrent requests.  Every request runs in its own session, in one     *)
(* transaction of the default isolation level of the engine (PostgreSQL,   *)
(* READ COMMITTED): a statement reads the committed rows; INSERT .. ON     *)
(* CONFLICT DO UPDATE locks the row of the pair until the end of the       *)
(* transaction, waits for a transaction that holds it, and then adds delta *)
(* to the latest committed quantity; the rows a transaction wrote become   *)
(* visible at its commit.  The reads of a handler are taken together, at   *)
(* its first statement.                                                    *)
(***************************************************************************)
Request(op, item, change, location, to_location, event_id) ==
  [op |-> op, inventory_item_id |-> item, change |-> change, location |-> location,
   to_location |-> to_location, event_id |-> event_id]

ConcTransferQuantities == {1, 10}
ConcMovementChanges == {-1, 2}

ConcRequests ==
  {Request("create_movement", "it_gin", ch, loc, NULL, NULL) : ch \in ConcMovementChanges, loc \in Locations}
    \cup {Request("create_transfer", "it_gin", q, f, t, NULL) :
            q \in ConcTransferQuantities, f \in Locations, t \in Locations}
    \cup {Request("consume", NULL, 0, loc, NULL, "e1") : loc \in ConsumeLocations}
    \cup {Request("unconsume", NULL, 0, loc, NULL, "e1") : loc \in ConsumeLocations}

\* the handler of a request on the database it reads
RunRequest(db, evs, r) ==
  IF r.op = "create_movement"
    THEN create_movement_run(db, r.location, r.inventory_item_id, Whole(r.change), NULL, NULL)
  ELSE IF r.op = "create_transfer"
    THEN create_transfer_run(db, r.inventory_item_id, r.change, r.location, r.to_location, NULL, 0)
  ELSE IF r.op = "consume"
    THEN consume_event_from_stock_run(db, evs, r.event_id, r.location)
  ELSE unconsume_event_from_stock_run(db, evs, r.event_id, r.location)

\* the stock rows other sessions wrote and did not commit yet
PendingRows(ss, s) ==
  LET others == {t \in Sessions \ {s} : ss[t].pc = "writing"}
      keys == UNION {DOMAIN ss[t].own : t \in others}
  IN [k \in keys |-> ss[CHOOSE t \in others : k \in DOMAIN ss[t].own].own[k]]

\* what a statement of session s reads: the committed rows only
Visible_uncommitted(db, ss, s) ==
  [db EXCEPT !.stock = [k \in DOMAIN db.stock \cup DOMAIN PendingRows(ss, s) |->
                          IF k \in DOMAIN PendingRows(ss, s) THEN PendingRows(ss, s)[k]
                          ELSE db.stock[k]]]

Visible(db, ss, s) == db

\* the first statements of a handler: its checks and reads, which fix the upserts it makes
begin_request(s, r) ==
  /\ nops < MaxOps
  /\ sessions[s].pc # "writing"
  /\ With(RunRequest(Visible(DB, sessions, s), events, r), LAMBDA res :
       LET plan == SubSeq(res.db.movements, Len(movements) + 1, Len(res.db.movements))
           changed == {i \in 1..Len(movements) : res.db.movements[i] # movements[i]}
           busy == {t \in Sessions \ {s} : sessions[t].pc = "writing"}
       IN /\ sessions' =
               [t \in Sessions |->
                  IF t = s
                    THEN [pc |-> IF plan = << >> /\ ~res.ok THEN "rejected" ELSE "writing",
                          req |-> r, ok |-> res.ok, status |-> res.status,
                          plan |-> plan, written |-> 0,
                          marked |-> [k \in changed |-> res.db.movements[k]],
                          own |-> << >>, inserted |-> {}, overlapped |-> busy # {}]
                    ELSE [sessions[t] EXCEPT !.overlapped = @ \/ t \in busy]]
          /\ nops' = IF res.ok THEN nops + 1 ELSE MaxOps)
  /\ UNCHANGED << stock, movements, orders, next_order_id, events, last, consumed, debited,
                  applied, stock0 >>

NextUpsert(ss, s) == ss[s].plan[ss[s].written + 1]

\* the row of the pair is locked by the open transaction of another session
Blocked_never(ss, s, key) == FALSE

Blocked(ss, s, key) == \E t \in Sessions \ {s} : ss[t].pc = "writing" /\ key \in DOMAIN ss[t].own

\* the row version the upsert works on: the own version, or the latest committed one
BaseRows(own, st, key) ==
  IF key \in DOMAIN own THEN own
  ELSE IF key \in DOMAIN st THEN own @@ (key :> st[key])
  ELSE own

\* db.execute(upsert): one INSERT .. ON CONFLICT DO UPDATE of the open transaction
execute_upsert(s) ==
  /\ sessions[s].pc = "writing"
  /\ sessions[s].written < Len(sessions[s].plan)
  /\ LET mv == NextUpsert(sessions, s)
         key == StockKey(mv.inventory_item_id, mv.location)
         own == sessions[s].own
     IN /\ ~Blocked(sessions, s, key)
        /\ sessions' = [sessions EXCEPT
             ![s].written = @ + 1,
             ![s].own = StockUpsert(BaseRows(own, stock, key), mv.inventory_item_id, mv.location, mv.change),
             ![s].inserted = IF key \in DOMAIN own \/ key \in DOMAIN stock THEN @ ELSE @ \cup {key}]
  /\ UNCHANGED << stock, movements, orders, next_order_id, events, last, nops, consumed, debited,
                  applied, stock0 >>

\* db.commit(): the rows of the transaction become the committed rows
commit(s) ==
  /\ sessions[s].pc = "writing"
  /\ sessions[s].written = Len(sessions[s].plan)
  /\ sessions[s].ok
  /\ stock' = [k \in DOMAIN stock \cup DOMAIN sessions[s].own |->
                 IF k \in DOMAIN sessions[s].own THEN sessions[s].own[k] ELSE stock[k]]
  /\ movements' = [k \in 1..Len(movements) |->
                     IF k \in DOMAIN sessions[s].marked THEN sessions[s].marked[k] ELSE movements[k]]
                  \o sessions[s].plan
  /\ applied' = Append(applied, [session |-> s, upserts |-> sessions[s].plan,
                                 inserted |-> sessions[s].inserted])
  /\ sessions' = [sessions EXCEPT ![s].pc = "committed", ![s].own = << >>]
  /\ UNCHANGED << orders, next_order_id, events, last, nops, consumed, debited, stock0 >>

\* the handler raised after its upserts: the session is closed without a commit
rollback(s) ==
  /\ sessions[s].pc = "writing"
  /\ sessions[s].written = Len(sessions[s].plan)
  /\ ~sessions[s].ok
  /\ sessions' = [sessions EXCEPT ![s].pc = "rejected", ![s].own = << >>, ![s].inserted = {}]
  /\ UNCHANGED << stock, movements, orders, next_order_id, events, last, nops, consumed, debited,
                  applied, stock0 >>

\* two transactions wait for a row of each other: the database ends one of them with an
\* error, the handler answers 500 and rolls back
deadlock_abort(s) ==
  /\ sessions[s].pc = "writing"
  /\ sessions[s].written < Len(sessions[s].plan)
  /\ \E t \in Sessions \ {s} :
       /\ sessions[t].pc = "writing"
       /\ sessions[t].written < Len(sessions[t].plan)
       /\ StockKey(NextUpsert(sessions, s).inventory_item_id, NextUpsert(sessions, s).location)
            \in DOMAIN sessions[t].own
       /\ StockKey(NextUpsert(sessions, t).inventory_item_id, NextUpsert(sessions, t).location)
            \in DOMAIN sessions[s].own
  /\ sessions' = [sessions EXCEPT ![s].pc = "rejected", ![s].ok = FALSE, ![s].status = 500,
                                  ![s].own = << >>, ![s].inserted = {}]
  /\ UNCHANGED << stock, movements, orders, next_order_id, events, last, nops, consumed, debited,
                  applied, stock0 >>

\* initial states of the concurrent requests: postings, the orders of one generation run
\* and, if it could be made, the consumption of event e1
SeedConsumes == {"none", "ALL", "BAR"}

ConcInit ==
  \E postings \in SeedPostings, seed_consume \in SeedConsumes :
    With(generate_run(Seeded(EmptyDB, postings), InitEvents, SeedWindow.order_date,
                      SeedWindow.location_scope, 0).db, LAMBDA generated :
    With(IF seed_consume = "none" THEN generated
         ELSE Committed(generated, consume_event_from_stock_run(generated, InitEvents, "e1", seed_consume)),
         LAMBDA db :
      /\ stock = db.stock
      /\ movements = db.movements
      /\ orders = db.orders
      /\ next_order_id = db.next_order_id
      /\ events = InitEvents
      /\ last = [op |-> "init", status |-> 0, args |-> << >>, out |-> << >>, dirty |-> FALSE]
      /\ nops = 0
      /\ consumed = {}
      /\ debited = {}
      /\ sessions = [s \in Sessions |-> IdleSession]
      /\ applied = << >>
      /\ stock0 = db.stock))

ConcNext ==
  \/ \E s \in Sessions, r \in ConcRequests : begin_request(s, r)
  \/ \E s \in Sessions : execute_upsert(s)
  \/ \E s \in Sessions : commit(s)
  \/ \E s \in Sessions : rollback(s)
  \/ \E s \in Sessions : deadlock_abort(s)

ConcSpec == ConcInit /\ [][ConcNext]_vars

(***************************************************************************)
(* Properties.                                                             *)
(***************************************************************************)
Succeeded(l) == l.status \in {200, 201, 204}

QuantityAt(st, item, loc) == IF HasStockRow(st, item, loc) THEN st[StockKey(item, loc)].quantity ELSE 0

MovementIdsOf(mvs, item, loc) ==
  {k \in 1..Len(mvs) : mvs[k].inventory_item_id = item /\ mvs[k].location = loc}

RECURSIVE ChangeSum(_, _)
ChangeSum(mvs, ids) ==
  IF ids = {} THEN 0
  ELSE LET k == CHOOSE i \in ids : TRUE IN mvs[k].change + ChangeSum(mvs, ids \ {k})

\* C1  Ledger-stock consistency: for every (item, location) pair the quantity of the stock
\* row equals the sum of the changes of the movements of the pair, and a pair without a
\* stock row has no movement.
LedgerStockConsistency ==
  /\ DOMAIN stock \subseteq InventoryItemIds \X Locations
  /\ \A item \in InventoryItemIds, loc \in Locations :
       IF HasStockRow(stock, item, loc)
         THEN stock[StockKey(item, loc)].quantity = ChangeSum(movements, MovementIdsOf(movements, item, loc))
         ELSE MovementIdsOf(movements, item, loc) = {}

\* a pair that received a posting, a consumption and its reversal
LedgerStockConsistencyWitness ==
  /\ last.op = "unconsume" /\ Succeeded(last)
  /\ \E item \in InventoryItemIds, loc \in Locations :
       /\ Cardinality(MovementIdsOf(movements, item, loc)) >= 3
       /\ \E k \in MovementIdsOf(movements, item, loc) : movements[k].is_reversed

\* the effect of a transfer on the two locations, for a step that is a successful transfer
TransferEffect(a) ==
  /\ QuantityAt(stock', a.inventory_item_id, a.from_location)
       + QuantityAt(stock', a.inventory_item_id, a.to_location)
     = QuantityAt(stock, a.inventory_item_id, a.from_location)
       + QuantityAt(stock, a.inventory_item_id, a.to_location)
  /\ QuantityAt(stock', a.inventory_item_id, a.from_location)
     = QuantityAt(stock, a.inventory_item_id, a.from_location) - a.quantity
  /\ QuantityAt(stock', a.inventory_item_id, a.to_location)
     = QuantityAt(stock, a.inventory_item_id, a.to_location) + a.quantity
  /\ HasStockRow(stock', a.inventory_item_id, a.to_location)

\* C2 as stated: every successful transfer keeps stock(from) + stock(to), lowers the source
\* by exactly quantity and raises the destination by exactly quantity.
TransferMovesQuantity ==
  [][(last'.op = "create_transfer" /\ Succeeded(last')) => TransferEffect(last'.args)]_vars

\* C2  Transfer conservation, amended: every successful transfer keeps stock(from) + stock(to);
\* when from_location differs from to_location the source decreases by exactly quantity and
\* the destination increases by exactly quantity (its row being created if it did not exist);
\* when the two locations are the same the quantity of that location is unchanged.
TransferConservation ==
  [][(last'.op = "create_transfer" /\ Succeeded(last')) =>
       LET a == last'.args IN
       /\ QuantityAt(stock', a.inventory_item_id, a.from_location)
            + QuantityAt(stock', a.inventory_item_id, a.to_location)
          = QuantityAt(stock, a.inventory_item_id, a.from_location)
            + QuantityAt(stock, a.inventory_item_id, a.to_location)
       /\ a.from_location # a.to_location => TransferEffect(a)
       /\ a.from_location = a.to_location =>
            QuantityAt(stock', a.inventory_item_id, a.from_location)
              = QuantityAt(stock, a.inventory_item_id, a.from_location)
       /\ \A item \in InventoryItemIds, loc \in Locations :
            (item # a.inventory_item_id \/ loc \notin {a.from_location, a.to_location}) =>
              QuantityAt(stock', item, loc) = QuantityAt(stock, item, loc)]_vars

\* a transfer between the two locations that created the destination row
TransferConservationWitness ==
  /\ last.op = "create_transfer" /\ Succeeded(last)
  /\ last.args.from_location # last.args.to_location
  /\ Cardinality(MovementIdsOf(movements, last.args.inventory_item_id, last.args.to_location)) = 1
  /\ QuantityAt(stock, last.args.inventory_item_id, last.args.to_location) = last.args.quantity

\* C3 as stated: once consume(event) has succeeded and no unconsume(event) has happened
\* since, the next consume(event) fails with Conflict and writes nothing.
ConsumeTwiceConflicts ==
  [][(last'.op = "consume" /\ last'.args.event_id \in consumed) =>
       (last'.status = 409 /\ movements' = movements /\ stock' = stock)]_vars

\* C3  Idempotent consumption, amended: once consume(event) has succeeded and written at
\* least one movement, and no unconsume(event) has succeeded since, the next consume(event)
\* with any location mode fails with Conflict, writes no movement and changes no stock.
IdempotentConsumption ==
  [][(last'.op = "consume" /\ last'.args.event_id \in debited) =>
       (last'.status = 409 /\ movements' = movements /\ stock' = stock)]_vars

\* the second consume of an event whose first consume debited the stock
IdempotentConsumptionWitness ==
  /\ last.op = "consume" /\ last.status = 409
  /\ last.args.event_id \in debited
  /\ TaggedConsumeIds(movements, last.args.event_id) # {}

\* C4  Reversal round-trip: consume(event) directly followed by unconsume(event) over all
\* locations leaves every (item, location) pair with the quantity it had before the consume.
ReversalRoundTrip ==
  [][(/\ last.op = "consume" /\ Succeeded(last)
      /\ last'.op = "unconsume"
      /\ last'.args.event_id = last.args.event_id
      /\ last'.args.location = "ALL") =>
       \A item \in InventoryItemIds, loc \in Locations :
         QuantityAt(stock', item, loc) = QuantityAt(last.out, item, loc)]_vars

\* an unconsume over all locations that reversed a consumption split over both locations
ReversalRoundTripWitness ==
  /\ last.op = "unconsume" /\ Succeeded(last) /\ last.args.location = "ALL"
  /\ nops = 2
  /\ \A loc \in Locations :
       \E k \in 1..Len(movements) :
         /\ movements[k].location = loc
         /\ movements[k].source_type = "event_consume"
         /\ movements[k].is_reversed

SeqSet(q) == {q[k] : k \in 1..Len(q)}

\* C5  Generation idempotence: a successful generate directly followed by a generate of the
\* same window and scope creates no Order row; every order the first run created, updated
\* or skipped is found again (updated in place if DRAFT), and the orders, their ids and
\* their lines are the same after the second call as after the first.
GenerationIdempotence ==
  [][(/\ last.op = "generate" /\ Succeeded(last)
      /\ last'.op = "generate" /\ Succeeded(last')
      /\ last'.args = last.args) =>
       /\ last'.out.created = << >>
       /\ SeqSet(last'.out.updated) \cup SeqSet(last'.out.skipped)
            = SeqSet(last.out.created) \cup SeqSet(last.out.updated) \cup SeqSet(last.out.skipped)
       /\ \A id \in SeqSet(last'.out.updated) : \E o \in orders : o.id = id /\ o.status = "DRAFT"
       /\ orders' = orders
       /\ next_order_id' = next_order_id]_vars

\* a second run over a window whose orders have lines
GenerationIdempotenceWitness ==
  /\ last.op = "generate" /\ Succeeded(last) /\ nops >= 1
  /\ last.out.created = << >>
  /\ Len(last.out.updated) >= 2
  /\ \E o \in orders : o.scope = "WEEKLY" /\ o.items # << >>
  /\ \E o \in orders : o.scope = "EVENT" /\ o.items # << >>

\* C6  Frozen orders: a generate call leaves every order whose status is not DRAFT in place,
\* with its fields and its lines unchanged.
FrozenOrders ==
  [][last'.op = "generate" => \A o \in orders : o.status # "DRAFT" => o \in orders']_vars

\* a run that found existing orders of both scopes frozen and skipped them
FrozenOrdersWitness ==
  /\ last.op = "generate" /\ Succeeded(last)
  /\ \E k \in 1..Len(last.out.skipped) :
       \E o \in orders : o.id = last.out.skipped[k] /\ o.status = "SENT" /\ o.scope = "EVENT"
  /\ \E k \in 1..Len(last.out.skipped) :
       \E o \in orders : o.id = last.out.skipped[k] /\ o.status = "SENT" /\ o.scope = "WEEKLY"

SnapshotOf(maps, ingredient_id, unit) ==
  IF unit = "ml" THEN maps.stock_ml[ingredient_id] ELSE maps.stock_qty[<< ingredient_id, unit >>]

SameNeed(a, b) == a.ingredient_id = b.ingredient_id /\ a.unit = b.unit

\* C7  Depletion monotonicity: within one generate call the events are processed in
\* ascending date order, and the stock offered to an event for an ingredient is the initial
\* snapshot minus what the earlier events of the call used of it, which is never more than
\* an earlier event left.
DepletionMonotonicity ==
  [][(last'.op = "generate" /\ Succeeded(last')) =>
       LET offered == last'.out.offered
           maps == _load_stock_maps(stock, last'.args.location_scope)
           earlier(k) == {j \in 1..(k - 1) : SameNeed(offered[j], offered[k])}
           used == [j \in 1..Len(offered) |-> offered[j].used]
       IN \A k \in 1..Len(offered) :
            /\ offered[k].available
                 = SnapshotOf(maps, offered[k].ingredient_id, offered[k].unit) - SumOver(earlier(k), used)
            /\ \A j \in 1..(k - 1) :
                 events[offered[j].event_id].event_date <= events[offered[k].event_id].event_date
            /\ \A j \in earlier(k) : offered[k].available <= offered[j].available - offered[j].used]_vars

\* a run in which the first event used stock and the second was offered what was left of it
DepletionMonotonicityWitness ==
  /\ last.op = "generate" /\ Succeeded(last) /\ nops >= 1
  /\ \E j, k \in 1..Len(last.out.offered) :
       /\ j < k
       /\ SameNeed(last.out.offered[j], last.out.offered[k])
       /\ last.out.offered[j].event_id # last.out.offered[k].event_id
       /\ last.out.offered[j].used > 0
       /\ last.out.offered[k].available > 0
       /\ last.out.offered[k].available = last.out.offered[j].available - last.out.offered[j].used

TransferLegsPaired(mvs) ==
  \A k \in 1..Len(mvs) :
    mvs[k].source_type = "transfer" =>
      IF mvs[k].change < 0
        THEN /\ k + 1 <= Len(mvs)
             /\ mvs[k + 1].source_type = "transfer"
             /\ mvs[k + 1].inventory_item_id = mvs[k].inventory_item_id
             /\ mvs[k + 1].change = -mvs[k].change
        ELSE /\ k - 1 >= 1
             /\ mvs[k - 1].source_type = "transfer"
             /\ mvs[k - 1].inventory_item_id = mvs[k].inventory_item_id
             /\ mvs[k - 1].change = -mvs[k].change

\* C9  Atomicity: a transfer, a consume or a generate call that fails at any step persists
\* none of its movements, stock changes or order changes, and the ledger never holds one
\* leg of a transfer without the other.
Atomicity ==
  [][/\ (last'.op \in {"create_transfer", "consume", "generate"} /\ ~Succeeded(last')) =>
          (/\ stock' = stock
           /\ movements' = movements
           /\ orders' = orders
           /\ next_order_id' = next_order_id)
     /\ TransferLegsPaired(movements')]_vars

\* a consume over all locations that failed on a later item after an earlier one was debited
AtomicityWitness ==
  /\ last.op = "consume" /\ last.status = 409 /\ last.dirty
  /\ last.args.location = "ALL"
  /\ TaggedConsumeIds(movements, last.args.event_id) = {}

\* a request lowers no available quantity to a negative value
NoneDrivenNegative ==
  \A item \in InventoryItemIds, loc \in Locations :
    AvailableAt(stock', item, loc) >= Min(AvailableAt(stock, item, loc), 0)

\* C10 as stated: no successful transfer and no successful consume, with location ALL, BAR
\* or WAREHOUSE, makes an available quantity negative.
NoNegativeAvailable ==
  [][(Succeeded(last') /\ last'.op \in {"create_transfer", "consume"}) => NoneDrivenNegative]_vars

\* C10  amended: no successful transfer and no successful consume with location ALL lowers
\* the available quantity of an (item, location) pair to a negative value; a consume with
\* location BAR or WAREHOUSE has no availability check and can, as create_movement can.
NoNegativeAvailableByTransferOrSplit ==
  [][(/\ Succeeded(last')
      /\ \/ last'.op = "create_transfer"
         \/ (last'.op = "consume" /\ last'.args.location = "ALL")) => NoneDrivenNegative]_vars

\* a consume over all locations that emptied WAREHOUSE and took the rest from BAR
NoNegativeAvailableByTransferOrSplitWitness ==
  /\ last.op = "consume" /\ Succeeded(last) /\ last.args.location = "ALL"
  /\ \E item \in InventoryItemIds :
       /\ AvailableAt(stock, item, "WAREHOUSE") = 0
       /\ \E k \in TaggedConsumeIds(movements, last.args.event_id) :
            movements[k].inventory_item_id = item /\ movements[k].location = "WAREHOUSE"
       /\ \E k \in TaggedConsumeIds(movements, last.args.event_id) :
            movements[k].inventory_item_id = item /\ movements[k].location = "BAR"

\* the consume requests that reach the deduction: the event exists, it has no consumption
\* movement, it has EVENT orders and every order line resolves to an inventory item
EventOrdersOf(os, ev_id) == {o \in os : o.scope = "EVENT" /\ o.event_id = ev_id}

NeedsOf(os, ev_id) == AggregateDeltas(AllItems(OrdersInIdOrder(EventOrdersOf(os, ev_id))), << >>)

ReachesDeduction(db, evs, ev_id) ==
  /\ ev_id \in DOMAIN evs
  /\ TaggedConsumeIds(db.movements, ev_id) = {}
  /\ LegacyConsumeIds(db.movements, ev_id, evs[ev_id]) = {}
  /\ EventOrdersOf(db.orders, ev_id) # {}
  /\ NeedsOf(db.orders, ev_id).status = 0

\* what a step debited at a location: quantity before minus quantity after
Debit(item, loc) == QuantityAt(stock, item, loc) - QuantityAt(stock', item, loc)

\* the split of the need n of one item over the two locations, as the contract states it
SplitAsStated(item, n) ==
  LET wh_avail == AvailableAt(stock, item, "WAREHOUSE")
      bar_avail == AvailableAt(stock, item, "BAR")
  IN /\ Debit(item, "WAREHOUSE") = Min(wh_avail, n)
     /\ Debit(item, "BAR") = n - Min(wh_avail, n)
     /\ Debit(item, "WAREHOUSE") <= wh_avail
     /\ Debit(item, "BAR") <= bar_avail
     /\ Debit(item, "WAREHOUSE") + Debit(item, "BAR") = n

\* the outcome of a consume over all locations for the aggregated needs of the event
SplitOutcome(deltas, guard(_)) ==
  LET needs == {k \in 1..Len(deltas) : deltas[k].delta < 0}
      short(k) == AvailableAt(stock, deltas[k].item, "WAREHOUSE")
                    + AvailableAt(stock, deltas[k].item, "BAR") < -deltas[k].delta
  IN (\A k \in needs : guard(deltas[k].item)) =>
       IF \E k \in needs : short(k)
         THEN last'.status = 409 /\ stock' = stock /\ movements' = movements
         ELSE /\ last'.status = 201
              /\ \A k \in needs : SplitAsStated(deltas[k].item, -deltas[k].delta)

\* C11 as stated: a consume with location ALL fails with Conflict when WAREHOUSE available
\* plus BAR available is less than the need of an item; otherwise WAREHOUSE is debited
\* min(WAREHOUSE available, n), BAR the remainder, neither more than its available, and the
\* two debits sum to n, in every reachable stock state.
SplitDebitsSumToNeed ==
  [][(/\ last'.op = "consume" /\ last'.args.location = "ALL"
      /\ ReachesDeduction(DB, events, last'.args.event_id)) =>
       SplitOutcome(NeedsOf(orders, last'.args.event_id).deltas, LAMBDA item : TRUE)]_vars

\* C11  restricted to the stock states in which BAR available is not negative: the split is
\* as stated (with a negative BAR available and a WAREHOUSE that covers the need, BAR is
\* credited and the debits do not sum to the need).
SplitAcrossLocations ==
  [][(/\ last'.op = "consume" /\ last'.args.location = "ALL"
      /\ ReachesDeduction(DB, events, last'.args.event_id)) =>
       SplitOutcome(NeedsOf(orders, last'.args.event_id).deltas,
                    LAMBDA item : AvailableAt(stock, item, "BAR") >= 0)]_vars

\* a consume over all locations that took part of a need from WAREHOUSE and the rest from BAR
SplitAcrossLocationsWitness ==
  /\ last.op = "consume" /\ Succeeded(last) /\ last.args.location = "ALL"
  /\ \E item \in InventoryItemIds :
       /\ QuantityAt(last.out, item, "WAREHOUSE") - QuantityAt(stock, item, "WAREHOUSE") = 1
       /\ QuantityAt(last.out, item, "BAR") - QuantityAt(stock, item, "BAR") = 1

\* the upserts of the committed concurrent transactions, in commit order
RECURSIVE AppliedUpserts(_)
AppliedUpserts(log) == IF log = << >> THEN << >> ELSE Head(log).upserts \o AppliedUpserts(Tail(log))

\* the stock rows of a pair: the initial one and one for every committed INSERT
RowCount(item, loc) ==
  (IF HasStockRow(stock0, item, loc) THEN 1 ELSE 0)
    + Cardinality({i \in 1..Len(applied) : StockKey(item, loc) \in applied[i].inserted})

\* C12  No lost update: in every interleaving of concurrent create_movement, transfer,
\* consume and unconsume requests, the committed quantity of every (item, location) pair is
\* the initial quantity plus the sum of the deltas of the committed upserts on the pair, and
\* the pair has exactly one stock row once it had a movement, also when its first movements
\* race.
NoLostUpdate ==
  \A item \in InventoryItemIds, loc \in Locations :
    LET ups == AppliedUpserts(applied)
        ids == MovementIdsOf(ups, item, loc)
    IN /\ QuantityAt(stock, item, loc) = QuantityAt(stock0, item, loc) + ChangeSum(ups, ids)
       /\ RowCount(item, loc) = IF HasStockRow(stock0, item, loc) \/ ids # {} THEN 1 ELSE 0
       /\ HasStockRow(stock, item, loc) <=> RowCount(item, loc) = 1

\* two transactions that were open at the same time made the first movements of a pair and
\* both committed
NoLostUpdateWitness ==
  \E item \in InventoryItemIds, loc \in Locations :
    /\ ~HasStockRow(stock0, item, loc)
    /\ \A s \in Sessions :
         /\ sessions[s].pc = "committed" /\ sessions[s].overlapped
         /\ MovementIdsOf(sessions[s].plan, item, loc) # {}
    /\ \E s \in Sessions : sessions[s].req.op \in {"consume", "create_transfer"}

\* the step in which session s makes the first statements of a request
BeginsRequest(s) ==
  /\ nops' # nops
  /\ sessions[s].pc \in {"idle", "committed"}
  /\ sessions'[s].pc \in {"writing", "rejected"}

CommitsRequest(s) == sessions[s].pc = "writing" /\ sessions'[s].pc = "committed"

\* C13  Transfer check-then-write race: the availability check of a transfer compares the
\* quantity with the committed available of the source, whatever other open transactions
\* have debited and not committed, and the debit is made later, on the quantity committed
\* by then; so two concurrent transfers from one source, each for no more than the
\* available quantity, can both pass the check and both commit.
TransferCheckThenWrite ==
  [][\A s \in Sessions :
       /\ (BeginsRequest(s) /\ sessions'[s].req.op = "create_transfer") =>
            LET r == sessions'[s].req
            IN sessions'[s].ok <=>
                 /\ HasStockRow(stock, r.inventory_item_id, r.location)
                 /\ AvailableAt(stock, r.inventory_item_id, r.location) >= r.change
       /\ (/\ CommitsRequest(s) /\ sessions[s].req.op = "create_transfer"
           /\ sessions[s].req.location # sessions[s].req.to_location) =>
            LET r == sessions[s].req
            IN QuantityAt(stock', r.inventory_item_id, r.location)
                 = QuantityAt(stock, r.inventory_item_id, r.location) - r.change]_vars

\* two transfers from one source, each for no more than its available quantity, that both
\* passed the check before either committed and both committed: the source is negative
TransferCheckThenWriteWitness ==
  \E item \in InventoryItemIds, loc \in Locations :
    /\ AvailableAt(stock, item, loc) < 0
    /\ AvailableAt(stock0, item, loc) > 0
    /\ \A s \in Sessions :
         /\ sessions[s].pc = "committed" /\ sessions[s].overlapped
         /\ sessions[s].req.op = "create_transfer"
         /\ sessions[s].req.inventory_item_id = item
         /\ sessions[s].req.location = loc
         /\ sessions[s].req.to_location # loc
         /\ sessions[s].req.change <= AvailableAt(stock0, item, loc)
    /\ Len(applied) = Cardinality(Sessions)

\* a movement that counts as a consumption of the event: not reversed, and tagged with the
\* event as event_consume or a row of the time before tagging whose reason names the event
CountsAsConsumption(mv, evs, ev_id) ==
  /\ ~mv.is_reversed
  /\ \/ mv.source_event_id = ev_id /\ mv.source_type = "event_consume"
     \/ /\ ev_id \in DOMAIN evs
        /\ mv.source_event_id = NULL
        /\ mv.source_type \in {NULL, "event"}
        /\ ~mv.is_reversal
        /\ mv.change < 0
        /\ \/ mv.reason = "Event consumed: " \o ev_id
           \/ evs[ev_id].name # NULL /\ mv.reason = "Event consumed: " \o evs[ev_id].name

StatusMatchesLedger(mvs, evs) ==
  \A e \in EventIds \cup {GhostEventId} :
    event_consumption_status(mvs, evs, e) <=> \E k \in 1..Len(mvs) : CountsAsConsumption(mvs[k], evs, e)

\* C14  consumption_status(event), asked in any state, is true exactly when a movement exists
\* that is not reversed and is tagged as a consumption of the event or is a legacy
\* consumption row of it: it is true after a successful consume that wrote movements, stays
\* true after an unconsume of one location while the other location still has non-reversed
\* movements, and is false after an unconsume over all locations.
ConsumptionStatus ==
  [][/\ StatusMatchesLedger(movements, events)
     /\ StatusMatchesLedger(movements', events')
     /\ (last'.op = "consume" /\ Succeeded(last') /\ Len(movements') > Len(movements)) =>
          event_consumption_status(movements', events', last'.args.event_id)
     /\ (/\ last'.op = "unconsume" /\ Succeeded(last')
         /\ \E k \in 1..Len(movements') :
              /\ movements'[k].source_event_id = last'.args.event_id
              /\ movements'[k].source_type = "event_consume"
              /\ ~movements'[k].is_reversed) =>
          event_consumption_status(movements', events', last'.args.event_id)
     /\ (last'.op = "unconsume" /\ Succeeded(last') /\ last'.args.location = "ALL") =>
          ~event_consumption_status(movements', events', last'.args.event_id)]_vars

\* an unconsume of BAR after a consumption split over both locations: the WAREHOUSE movement
\* is not reversed and the event is still consumed
ConsumptionStatusWitness ==
  /\ last.op = "unconsume" /\ Succeeded(last) /\ last.args.location = "BAR"
  /\ event_consumption_status(movements, events, last.args.event_id)
  /\ \E k \in 1..Len(movements) :
       /\ movements[k].source_event_id = last.args.event_id
       /\ movements[k].source_type = "event_consume"
       /\ movements[k].location = "BAR" /\ movements[k].is_reversed
  /\ \E k \in 1..Len(movements) :
       /\ movements[k].source_event_id = last.args.event_id
       /\ movements[k].source_type = "event_consume"
       /\ movements[k].location = "WAREHOUSE" /\ ~movements[k].is_reversed

\* the spellings of a reason that mean TRANSFER, and those that mean USAGE or WASTE
TransferSpellings == {"TRANSFER", "Transfer", "transfer", " Transfer ", " transfer "}
StockOutSpellings == {"USAGE", "Usage", "usage", "WASTE", "Waste", "waste"}

Rejected(l) == l.status \in {400, 404}

\* the create_movement requests that are to be rejected, given what counts as positive
MustReject(a, positive(_)) ==
  \/ a.reason \in TransferSpellings
  \/ a.reason \in StockOutSpellings /\ positive(a.change)
  \/ a.inventory_item_id \notin InventoryItemIds

\* C15 as stated: create_movement rejects every request whose reason is TRANSFER in any case
\* and padding, every request whose reason is USAGE or WASTE with a positive change, and every
\* request for a missing inventory item; a rejected request writes no movement and changes no
\* stock.
MovementRejections ==
  [][last'.op = "create_movement" =>
       /\ MustReject(last'.args, LAMBDA c : c > 0) => Rejected(last')
       /\ Rejected(last') => movements' = movements /\ stock' = stock]_vars

\* C15  with a positive change read as a change of at least one unit: the change is truncated
\* to an integer before it is compared with 0, so USAGE or WASTE with a change between 0 and 1
\* is accepted and writes a movement of 0.
MovementRejectionsOfWholeChanges ==
  [][last'.op = "create_movement" =>
       /\ MustReject(last'.args, LAMBDA c : c >= ChangeUnit) => Rejected(last')
       /\ Rejected(last') => movements' = movements /\ stock' = stock]_vars

\* a padded, mixed-case TRANSFER reason rejected
MovementRejectionsOfWholeChangesWitness ==
  /\ last.op = "create_movement" /\ last.status = 400
  /\ last.args.reason = " Transfer "
  /\ last.args.inventory_item_id \in InventoryItemIds

(***************************************************************************)
(* C16  Cleanup postcondition.                                             *)
(***************************************************************************)
\* the events whose date lies in the window that starts at start
EventsInWindow(evs, start) ==
  {e \in DOMAIN evs : evs[e].event_date >= start /\ evs[e].event_date <= _next_wednesday(start)}

\* the DRAFT EVENT orders with their period inside the window
DraftEventOrdersInside(os, start) ==
  {o \in os : /\ o.status = "DRAFT" /\ o.scope = "EVENT"
              /\ o.period_start >= start /\ o.period_end <= _next_wednesday(start)}

\* the DRAFT WEEKLY orders for exactly the window
DraftWeeklyOrdersOf(os, start) ==
  {o \in os : /\ o.status = "DRAFT" /\ o.scope = "WEEKLY"
              /\ o.period_start = start /\ o.period_end = _next_wednesday(start)}

\* the shortfall of a supplier summed over the lines the run offered stock to
SupplierShortfall(offered, sid) ==
  SumOver({k \in 1..Len(offered) : _assign_supplier(offered[k].ingredient_id) = sid},
          [k \in 1..Len(offered) |-> Max(0, offered[k].requested - offered[k].used)])

\* C16: after a successful generate(window), every DRAFT EVENT order with its period inside
\* the window belongs to an event of the window, every DRAFT WEEKLY order for exactly the
\* window belongs to a supplier with a positive aggregate shortfall, and when no event is in
\* the window no DRAFT order for the window remains and the result is empty.
CleanupPostcondition ==
  [][(last'.op = "generate" /\ Succeeded(last')) =>
       LET start == last'.args.order_date
           in_window == EventsInWindow(events', start)
       IN /\ \A o \in DraftEventOrdersInside(orders', start) : o.event_id \in in_window
          /\ \A o \in DraftWeeklyOrdersOf(orders', start) :
               SupplierShortfall(last'.out.offered, o.supplier_id) > 0
          /\ in_window = {} =>
               /\ DraftEventOrdersInside(orders', start) = {}
               /\ DraftWeeklyOrdersOf(orders', start) = {}
               /\ last'.out = [offered |-> << >>, created |-> << >>,
                               updated |-> << >>, skipped |-> << >>]]_vars

\* a generate over a window that has lost both of its events removed every order generated
\* for it and returned an empty result
CleanupPostconditionWitness ==
  /\ last.op = "generate" /\ Succeeded(last)
  /\ EventsInWindow(events, last.args.order_date) = {}
  /\ next_order_id > 1
  /\ DOMAIN events # {}
  /\ orders = {}
  /\ last.out.offered = << >>

(***************************************************************************)
(* C17  Order period invariant.                                            *)
(***************************************************************************)
\* the ids of the orders a generate call reports as created or updated
WrittenIds(out) == SeqSet(out.created) \cup SeqSet(out.updated)

\* C17: after every successful generate(window), every DRAFT EVENT order of an event in
\* the window has period_start = period_end = the current date of that event, and every
\* WEEKLY order written by the call has the window as its period.
OrderPeriodInvariant ==
  [][(last'.op = "generate" /\ Succeeded(last')) =>
       LET start == last'.args.order_date
       IN /\ \A o \in orders' :
               (o.status = "DRAFT" /\ o.scope = "EVENT"
                  /\ o.event_id \in EventsInWindow(events', start)) =>
                 /\ o.period_start = events'[o.event_id].event_date
                 /\ o.period_end = events'[o.event_id].event_date
          /\ \A o \in orders' :
               (o.scope = "WEEKLY" /\ o.id \in WrittenIds(last'.out)) =>
                 /\ o.period_start = start
                 /\ o.period_end = _next_wednesday(start)]_vars

\* what holds of the periods: the EVENT orders the call created carry the date of their
\* event, and the WEEKLY orders it wrote carry the window
OrderPeriodsOfWrittenOrders ==
  [][(last'.op = "generate" /\ Succeeded(last')) =>
       LET start == last'.args.order_date
       IN \A o \in orders' :
            /\ (o.scope = "EVENT" /\ o.id \in SeqSet(last'.out.created)) =>
                 /\ o.period_start = events'[o.event_id].event_date
                 /\ o.period_end = events'[o.event_id].event_date
            /\ (o.scope = "WEEKLY" /\ o.id \in WrittenIds(last'.out)) =>
                 /\ o.period_start = start
                 /\ o.period_end = _next_wednesday(start)]_vars

\* a generate call updated a DRAFT EVENT order of an event whose date had been edited
OrderPeriodsOfWrittenOrdersWitness ==
  /\ last.op = "generate" /\ Succeeded(last)
  /\ \E o \in orders :
       /\ o.scope = "EVENT" /\ o.status = "DRAFT" /\ o.id \in SeqSet(last.out.updated)
       /\ o.event_id \in EventsInWindow(events, last.args.order_date)
       /\ o.period_start # events[o.event_id].event_date
  /\ \E o \in orders : o.scope = "WEEKLY" /\ o.id \in WrittenIds(last.out)

(***************************************************************************)
(* C18  Append-only ledger.                                                *)
(***************************************************************************)
\* what a step may do to the movement with id k: nothing, or mark it reversed in an
\* unconsume, which also tags a row written before movements were tagged
MovementKept(k) ==
  LET a == movements[k]
      b == movements'[k]
  IN /\ b.change = a.change
     /\ b.location = a.location
     /\ b.inventory_item_id = a.inventory_item_id
     /\ b.reason = a.reason
     /\ b.is_reversal = a.is_reversal
     /\ b.reversal_of_id = a.reversal_of_id
     /\ a.is_reversed => b.is_reversed
     /\ b # a =>
          /\ last'.op = "unconsume"
          /\ ~a.is_reversed /\ b.is_reversed
          /\ b.source_event_id # a.source_event_id =>
               a.source_event_id = NULL /\ b.source_event_id = last'.args.event_id
          /\ b.source_type # a.source_type =>
               a.source_type \in {NULL, "event"} /\ b.source_type = "event_consume"

LedgerStep ==
  /\ Len(movements') >= Len(movements)
  /\ \A k \in 1..Len(movements) : MovementKept(k)

\* C18: no operation deletes a movement or changes the change, location or item of an
\* existing one; an existing movement changes only when an unconsume sets is_reversed
\* from false to true (and tags a legacy row), and is_reversed never returns to false.
AppendOnlyLedger == [][LedgerStep]_vars

\* what holds: the requests of the inventory and order interfaces keep the ledger
AppendOnlyLedgerOfInventoryRequests == [][last'.op # "delete_bottle" => LedgerStep]_vars

\* an unconsume marked a legacy row and a tagged row as reversed and appended reversals
AppendOnlyLedgerOfInventoryRequestsWitness ==
  /\ last.op = "unconsume" /\ Succeeded(last)
  /\ \E k \in 1..Len(movements) :
       movements[k].is_reversed /\ movements[k].reason = "Event consumed: e2"
  /\ \E k \in 1..Len(movements) : movements[k].is_reversal

(***************************************************************************)
(* C19  Generation reads stock and never writes it.                        *)
(***************************************************************************)
\* the availability a run offered to the first need of an ingredient: the loaded snapshot
FirstOffered(offered, ingredient_id) ==
  LET ks == {k \in 1..Len(offered) : offered[k].ingredient_id = ingredient_id}
  IN IF ks = {} THEN None
     ELSE Some(offered[CHOOSE k \in ks : \A j \in ks : k <= j].available)

\* C19: a generate call, successful or not, leaves every InventoryStock row and the
\* movement ledger as they were, and of two generate calls with nothing in between the
\* second starts from the same stock snapshot as the first.
GenerateLeavesStock ==
  [][last'.op = "generate" =>
       /\ stock' = stock
       /\ movements' = movements
       /\ \A scope \in LocationScopes :
            _load_stock_maps(stock', scope) = _load_stock_maps(stock, scope)
       /\ (last.op = "generate" /\ last.args.location_scope = last'.args.location_scope) =>
            \A i \in IngredientIds :
              (~IsNone(FirstOffered(last.out.offered, i))
                 /\ ~IsNone(FirstOffered(last'.out.offered, i))) =>
                FirstOffered(last'.out.offered, i) = FirstOffered(last.out.offered, i)]_vars

\* a generate that directly follows the generate that created the DRAFT orders it updated,
\* over stock that covered part of the needs of the window: the run depleted its snapshot
GenerateLeavesStockWitness ==
  /\ last.op = "generate" /\ Succeeded(last) /\ nops = 1
  /\ last.out.updated # << >>
  /\ \E k \in 1..Len(last.out.offered) : last.out.offered[k].used > 0
  /\ \E k \in 1..Len(last.out.offered) :
       /\ last.out.offered[k].available < Val(FirstOffered(last.out.offered, last.out.offered[k].ingredient_id))
  /\ \E key \in DOMAIN stock : stock[key].quantity > 0

(***************************************************************************)
(* C20  Reversal linkage invariant.                                        *)
(***************************************************************************)
\* the reversal entries written for the movement with id k
ReversalsOf(mvs, k) == {r \in 1..Len(mvs) : mvs[r].is_reversal /\ mvs[r].reversal_of_id = k}

\* the reversal entry r cancels the movement k it is linked to
Cancels(mvs, r, k) ==
  /\ mvs[r].inventory_item_id = mvs[k].inventory_item_id
  /\ mvs[r].location = mvs[k].location
  /\ mvs[r].change = 0 - mvs[k].change
  /\ mvs[r].source_type = "event_unconsume"
  /\ mvs[r].source_event_id = mvs[k].source_event_id

\* C20: in every reachable state a movement is marked is_reversed exactly when exactly one
\* reversal entry is linked to it, that entry has the same item and location, the opposite
\* change, source_type event_unconsume and the same source_event_id, and no reversal entry
\* is itself marked is_reversed.
ReversalLinkage ==
  \A k \in 1..Len(movements) :
    /\ movements[k].is_reversed <=> Cardinality(ReversalsOf(movements, k)) = 1
    /\ \A r \in ReversalsOf(movements, k) : Cancels(movements, r, k)
    /\ movements[k].is_reversal => ~movements[k].is_reversed

\* requests served one after the other keep the linkage: a ledger where a consumption
\* written before tagging was reversed and tagged, next to a tagged consumption that was
\* not reversed
ReversalLinkageWitness ==
  /\ \E k \in 1..Len(movements) :
       /\ movements[k].is_reversed /\ movements[k].reason = "Event consumed: e2"
       /\ ReversalsOf(movements, k) # {}
  /\ \E k \in 1..Len(movements) :
       /\ ~movements[k].is_reversed /\ movements[k].source_type = "event_consume"
       /\ ReversalsOf(movements, k) = {}

(***************************************************************************)
(* C21  unconsume with nothing to reverse.                                 *)
(***************************************************************************)
\* the requested location(s) of a consume or unconsume cover the location loc
Covers(location, loc) == location \in {"BAR", "WAREHOUSE"} => loc = location

\* a non-reversed consumption movement of the event exists at the requested location(s)
ConsumptionAt(mvs, evs, ev_id, location) ==
  \E k \in 1..Len(mvs) : CountsAsConsumption(mvs[k], evs, ev_id) /\ Covers(location, mvs[k].location)

\* C21: an unconsume of an event without a non-reversed consumption movement at the
\* requested location(s) fails with Conflict and leaves movements and stock as they were;
\* so does an unconsume directly after a successful unconsume over the same locations;
\* an unconsume of an event that does not exist fails with NotFound.
UnconsumeNothing ==
  [][last'.op = "unconsume" =>
       LET e == last'.args.event_id
           loc == last'.args.location
       IN /\ e \notin DOMAIN events => last'.status = 404
          /\ (e \in DOMAIN events /\ ~ConsumptionAt(movements, events, e, loc)) =>
               last'.status = 409
          /\ (last.op = "unconsume" /\ Succeeded(last) /\ last.args = last'.args) =>
               last'.status = 409
          /\ last'.status \in {404, 409} => movements' = movements /\ stock' = stock
          /\ Succeeded(last') => ConsumptionAt(movements, events, e, loc)]_vars

\* an unconsume was refused although the event has a reversed consumption at the location:
\* the unconsume before it had reversed it
UnconsumeNothingWitness ==
  /\ last.op = "unconsume" /\ last.status = 409
  /\ \E k \in 1..Len(movements) :
       /\ movements[k].is_reversed
       /\ movements[k].source_event_id = last.args.event_id
       /\ Covers(last.args.location, movements[k].location)

(***************************************************************************)
(* C22  Consume / unconsume ordering.                                      *)
(***************************************************************************)
\* some item of the event is short over both locations together
ShortOverAll(st, deltas) ==
  \E k \in 1..Len(deltas) :
    /\ deltas[k].delta < 0
    /\ AvailableAt(st, deltas[k].item, "WAREHOUSE") + AvailableAt(st, deltas[k].item, "BAR")
         < -deltas[k].delta

\* the movements a step appended are non-reversed consumption movements of the event
AppendedConsumptionOf(ev_id) ==
  \A k \in (Len(movements) + 1)..Len(movements') :
    /\ movements'[k].source_type = "event_consume"
    /\ movements'[k].source_event_id = ev_id
    /\ ~movements'[k].is_reversed /\ ~movements'[k].is_reversal

\* C22: while a consumption movement of the event is not reversed, consume is rejected with
\* Conflict; a consume directly after an unconsume that left no consumption movement of the
\* event non-reversed is accepted again (the event still has its EVENT orders; over all
\* locations it can only fail for lack of stock) and writes new non-reversed event_consume
\* movements.
ConsumeAfterUnconsume ==
  [][last'.op = "consume" =>
       LET e == last'.args.event_id
           loc == last'.args.location
           needs == NeedsOf(orders, e).deltas
       IN /\ ConsumptionAt(movements, events, e, "ALL") =>
               last'.status = 409 /\ movements' = movements /\ stock' = stock
          /\ (/\ last.op = "unconsume" /\ Succeeded(last) /\ last.args.event_id = e
              /\ ~ConsumptionAt(movements, events, e, "ALL")
              /\ EventOrdersOf(orders, e) # {}) =>
               /\ last'.status = IF loc = "ALL" /\ ShortOverAll(stock, needs) THEN 409 ELSE 201
               /\ Succeeded(last') =>
                    /\ AppendedConsumptionOf(e)
                    /\ (\E k \in 1..Len(needs) : needs[k].delta # 0) =>
                         Len(movements') > Len(movements)]_vars

\* a consume was accepted for an event whose earlier consumption, written by consume, had
\* been reversed: the ledger holds the reversed movements and the new ones
ConsumeAfterUnconsumeWitness ==
  /\ last.op = "consume" /\ Succeeded(last)
  /\ \E k \in 1..Len(movements) :
       /\ movements[k].is_reversed
       /\ movements[k].source_event_id = last.args.event_id
       /\ movements[k].reason = _default_event_consumed_reason(last.args.event_id, events[last.args.event_id])
  /\ \E k \in 1..Len(movements) :
       /\ ~movements[k].is_reversed
       /\ movements[k].source_type = "event_consume"
       /\ movements[k].source_event_id = last.args.event_id

(***************************************************************************)
(* C23  Weekly summary.                                                    *)
(***************************************************************************)
\* the needed amount of an order line, in ml or in its unit
NeededOf(line) == IF ~IsNone(line.needed_ml) THEN Val(line.needed_ml) ELSE Val(line.needed_quantity)

\* the shortfalls of the events of a run for an ingredient ordered from a supplier, summed
\* over the lines the run offered stock to
ShortfallSum(offered, sid, ingredient_id) ==
  SumOver({k \in 1..Len(offered) : /\ offered[k].ingredient_id = ingredient_id
                                   /\ _assign_supplier(ingredient_id) = sid},
          [k \in 1..Len(offered) |-> Max(0, offered[k].requested - offered[k].used)])

\* the WEEKLY orders of a supplier for exactly the window
WeeklyOrdersOf(os, sid, start) ==
  {o \in os : /\ o.scope = "WEEKLY" /\ o.supplier_id = sid
              /\ o.period_start = start /\ o.period_end = _next_wednesday(start)}

\* the lines of an ingredient on a set of orders, as pairs of order id and position
LinesOf(os, ingredient_id) ==
  UNION {{<< o.id, k >> : k \in {j \in 1..Len(o.items) : o.items[j].ingredient_id = ingredient_id}} : o \in os}

LineAt(os, ref) == (CHOOSE o \in os : o.id = ref[1]).items[ref[2]]

\* the weekly summary of one (supplier, ingredient) after a run, over the WEEKLY orders ws
WeeklySummaryOf(ws, offered, sid, i) ==
  LET drafts == {o \in ws : o.status = "DRAFT"}
  IN /\ ShortfallSum(offered, sid, i) > 0 <=> LinesOf(ws, i) # {}
     /\ Cardinality(LinesOf(drafts, i)) <= 1
     /\ \A ref \in LinesOf(drafts, i) : NeededOf(LineAt(drafts, ref)) = ShortfallSum(offered, sid, i)

\* C23 as stated: after a successful generate(window), for every supplier (the null
\* supplier included) and ingredient, a WEEKLY line exists exactly when the sum of the
\* per-event shortfalls is greater than zero, and the needed amount of the DRAFT WEEKLY
\* line equals that sum.
WeeklySummary ==
  [][(last'.op = "generate" /\ Succeeded(last')) =>
       \A sid \in SupplierIds, i \in IngredientIds :
         WeeklySummaryOf(WeeklyOrdersOf(orders', sid, last'.args.order_date),
                         last'.out.offered, sid, i)]_vars

\* C23 for the suppliers whose WEEKLY order of the window is not frozen: an order that is
\* no longer DRAFT is left untouched and reported as skipped, whatever the sums are now.
WeeklySummaryOfDraftOrders ==
  [][(last'.op = "generate" /\ Succeeded(last')) =>
       \A sid \in SupplierIds, i \in IngredientIds :
         (\A o \in WeeklyOrdersOf(orders, sid, last'.args.order_date) : o.status = "DRAFT") =>
           WeeklySummaryOf(WeeklyOrdersOf(orders', sid, last'.args.order_date),
                           last'.out.offered, sid, i)]_vars

\* a run over a window with two events that were both short of an ingredient: the DRAFT
\* WEEKLY line carries more than either event's shortfall
WeeklySummaryOfDraftOrdersWitness ==
  /\ last.op = "generate" /\ Succeeded(last) /\ nops > 0
  /\ \E i \in IngredientIds, j \in 1..Len(last.out.offered), k \in 1..Len(last.out.offered) :
       /\ j # k
       /\ last.out.offered[j].ingredient_id = i /\ last.out.offered[k].ingredient_id = i
       /\ last.out.offered[j].requested > last.out.offered[j].used
       /\ last.out.offered[k].requested > last.out.offered[k].used
       /\ \E o \in WeeklyOrdersOf(orders, _assign_supplier(i), last.args.order_date) :
            /\ o.status = "DRAFT"
            /\ \E n \in 1..Len(o.items) :
                 /\ o.items[n].ingredient_id = i
                 /\ NeededOf(o.items[n]) = ShortfallSum(last.out.offered, _assign_supplier(i), i)

(***************************************************************************)
(* C24  Consume deducts the requested amounts.                             *)
(***************************************************************************)
\* the amount consume reads on a line: requested, or needed when neither requested_ml nor
\* requested_quantity was ever written
RequestedOf(line) ==
  IF ~IsNone(line.requested_ml) THEN Val(line.requested_ml)
  ELSE IF ~IsNone(line.requested_quantity) THEN Val(line.requested_quantity)
  ELSE NeededOf(line)

\* the lines of the EVENT orders of an event, as pairs of order id and position
EventLineRefs(os, ev_id) ==
  UNION {{<< o.id, k >> : k \in 1..Len(o.items)} : o \in EventOrdersOf(os, ev_id)}

\* the inventory item an order line maps to
ItemOfLine(line) ==
  IF line.bottle_id # NULL THEN CHOOSE i \in BottleItems(line.bottle_id) : TRUE
  ELSE CHOOSE i \in GarnishItems(line.ingredient_id) : TRUE

\* whole bottles in a requested amount of a bottle-backed line
WholeBottles(line) == TruncDiv(RequestedOf(line), Val(line.bottle_volume_ml) * MenuSize)

\* the deduction of a line in units of 1/MenuSize, as C24 states it: whole bottles for
\* a bottle-backed line, the requested amount for a garnish line
DeductionAsStated(line) ==
  IF line.bottle_id # NULL THEN MenuSize * WholeBottles(line) ELSE RequestedOf(line)

\* the deduction of a line in units of 1/MenuSize with the garnish amount cut to its whole part
DeductionTruncated(line) ==
  IF line.bottle_id # NULL THEN MenuSize * WholeBottles(line)
  ELSE MenuSize * TruncDiv(RequestedOf(line), MenuSize)

\* generate wrote, for every ingredient an event needs, a line with the requested amount on
\* the EVENT order of the event and the ingredient's supplier, unless that order is frozen
RequestedLinesWritten ==
  (last'.op = "generate" /\ Succeeded(last')) =>
    \A k \in 1..Len(last'.out.offered) :
      LET f == last'.out.offered[k]
          sid == _assign_supplier(f.ingredient_id)
          frozen == \E o \in orders : /\ o.id \in SeqSet(last'.out.skipped)
                                      /\ o.scope = "EVENT" /\ o.event_id = f.event_id
                                      /\ o.supplier_id = sid
      IN ~frozen =>
           \E o \in orders' :
             /\ o.id \in WrittenIds(last'.out)
             /\ o.scope = "EVENT" /\ o.event_id = f.event_id /\ o.supplier_id = sid
             /\ \E n \in 1..Len(o.items) :
                  /\ o.items[n].ingredient_id = f.ingredient_id
                  /\ RequestedOf(o.items[n]) = f.requested
                  /\ NeededOf(o.items[n]) = Max(0, f.requested - f.used)

\* a successful consume at one location wrote, per inventory item, one movement of minus
\* the sum of the deductions D of the lines of the event that map to the item, and none
\* when the sum is zero
SingleLocationDeductions(D(_)) ==
  (last'.op = "consume" /\ Succeeded(last') /\ last'.args.location # "ALL") =>
    LET e == last'.args.event_id
        os == EventOrdersOf(orders, e)
        refs == EventLineRefs(orders, e)
        appended == (Len(movements) + 1)..Len(movements')
    IN \A item \in InventoryItemIds :
         LET mine == {ref \in refs : ItemOfLine(LineAt(os, ref)) = item}
             total == SumOver(mine, [ref \in mine |-> D(LineAt(os, ref))])
             written == {k \in appended : movements'[k].inventory_item_id = item}
         IN /\ Cardinality(written) = IF total = 0 THEN 0 ELSE 1
            /\ \A k \in written :
                 /\ movements'[k].location = last'.args.location
                 /\ MenuSize * movements'[k].change = -total

ConsumeDeductsNeededOfOlderLinesWitness ==
  /\ last.op = "consume" /\ Succeeded(last) /\ last.args.location # "ALL"
  /\ \E o \in EventOrdersOf(orders, last.args.event_id) : \E n \in 1..Len(o.items) :
       /\ IsNone(o.items[n].requested_ml) /\ IsNone(o.items[n].requested_quantity)
       /\ \E k \in 1..Len(movements) :
            /\ movements[k].source_event_id = last.args.event_id
            /\ movements[k].inventory_item_id = ItemOfLine(o.items[n])
            /\ movements[k].change < 0

(***************************************************************************)
(* C25  Order uniqueness.                                                  *)
(***************************************************************************)
\* at most one EVENT order per (event, supplier), the null supplier counting as a supplier
EventOrderUniqueness ==
  \A o1 \in orders, o2 \in orders :
    (/\ o1.scope = "EVENT" /\ o2.scope = "EVENT"
     /\ o1.event_id # NULL /\ o1.event_id = o2.event_id
     /\ o1.supplier_id = o2.supplier_id) => o1.id = o2.id

\* at most one WEEKLY order per (supplier, period_start, period_end)
WeeklyOrderUniqueness ==
  \A o1 \in orders, o2 \in orders :
    (/\ o1.scope = "WEEKLY" /\ o2.scope = "WEEKLY"
     /\ o1.supplier_id = o2.supplier_id
     /\ o1.period_start = o2.period_start /\ o1.period_end = o2.period_end) => o1.id = o2.id

\* C25: in every state reached by event date edits, event deletions and generate calls, at
\* most one EVENT order exists per (event, supplier) and at most one WEEKLY order per
\* (supplier, period_start, period_end).
OrderUniqueness == EventOrderUniqueness /\ WeeklyOrderUniqueness

(***************************************************************************)
(* C26  No stale event lines.                                              *)
(***************************************************************************)
\* the line is one the run computed for the (event, supplier) pair of the order o
ComputedInRun(offered, o, line) ==
  \E k \in 1..Len(offered) :
    /\ offered[k].event_id = o.event_id
    /\ offered[k].ingredient_id = line.ingredient_id
    /\ _assign_supplier(offered[k].ingredient_id) = o.supplier_id
    /\ RequestedOf(line) = offered[k].requested
    /\ NeededOf(line) = Max(0, offered[k].requested - offered[k].used)

\* the DRAFT EVENT orders os carry exactly the lines of the run, and an ingredient appears
\* at most once across the orders of one event
OnlyLinesOfRun(os, offered) ==
  /\ \A o \in os : \A n \in 1..Len(o.items) : ComputedInRun(offered, o, o.items[n])
  /\ \A k \in 1..Len(offered) :
       Cardinality(LinesOf({o \in os : o.event_id = offered[k].event_id},
                           offered[k].ingredient_id)) <= 1

\* C26: after a successful generate(window), every DRAFT EVENT order of an event of the
\* window carries exactly the lines computed in that run for its (event, supplier) pair,
\* none remains for a supplier the run computed no line for, and an ingredient appears at
\* most once across the DRAFT EVENT orders of one event.
NoStaleEventLines ==
  [][(last'.op = "generate" /\ Succeeded(last')) =>
       OnlyLinesOfRun({o \in orders' : /\ o.status = "DRAFT" /\ o.scope = "EVENT"
                                       /\ o.event_id \in EventsInWindow(events', last'.args.order_date)},
                      last'.out.offered)]_vars

\* the same for the DRAFT EVENT orders whose period lies inside the window, the orders the
\* run looks up
NoStaleEventLinesInsideWindow ==
  [][(last'.op = "generate" /\ Succeeded(last')) =>
       OnlyLinesOfRun({o \in DraftEventOrdersInside(orders', last'.args.order_date) :
                         o.event_id \in EventsInWindow(events', last'.args.order_date)},
                      last'.out.offered)]_vars

(***************************************************************************)
(* C27  Serializability of consumption.                                    *)
(***************************************************************************)
\* the non-reversed consumption movements of an event on one (item, location) pair
OpenDebits(mvs, ev_id, item, loc) ==
  {k \in TaggedConsumeIds(mvs, ev_id) : mvs[k].inventory_item_id = item /\ mvs[k].location = loc}

\* what every sequential order of consume and unconsume calls of one event keeps: the
\* event is debited by one consume call at a time, so a pair holds at most one of its
\* non-reversed consumption movements
DebitedByOneConsume ==
  \A e \in EventIds, item \in InventoryItemIds, loc \in Locations :
    Cardinality(OpenDebits(movements, e, item, loc)) <= 1

\* and an original movement has at most one reversal
ReversedByOneUnconsume ==
  \A k \in 1..Len(movements) : Cardinality(ReversalsOf(movements, k)) <= 1

\* C27: for any interleaving of concurrent consume and unconsume calls of one event the
\* committed ledger is that of some sequential order of the calls: two concurrent consume
\* calls never both commit debit movements for the event, and two concurrent unconsume
\* calls never both write a reversal of the same original movement.
ConsumptionSerializable == DebitedByOneConsume /\ ReversedByOneUnconsume

(***************************************************************************)
(* C28  Movement signs.                                                    *)
(***************************************************************************)
\* every movement written by consume takes stock out and every movement written by
\* unconsume puts stock in
SignsBySourceType ==
  \A k \in 1..Len(movements) :
    /\ movements[k].source_type = "event_consume" => movements[k].change < 0
    /\ movements[k].source_type = "event_unconsume" => movements[k].change > 0

\* a consume call writes at most one movement per (item, location)
OneMovementPerPair ==
  [][last'.op = "consume" =>
       \A item \in InventoryItemIds, loc \in Locations :
         Cardinality({k \in (Len(movements) + 1)..Len(movements') :
                        /\ movements'[k].inventory_item_id = item
                        /\ movements'[k].location = loc}) <= 1]_vars

\* C28: in every reachable state, also when a location's stock was made negative by a
\* manual adjustment, every movement with source_type event_consume has a strictly
\* negative change and every movement with source_type event_unconsume a strictly positive
\* one, and a consume call writes at most one movement per (item, location).
MovementSigns == [](SignsBySourceType) /\ OneMovementPerPair

(***************************************************************************)
(* C29  Order line well-formedness.                                        *)
(***************************************************************************)
\* the amount of an order line covered from stock, in ml or in its unit
UsedOf(line) ==
  IF ~IsNone(line.used_from_stock_ml) THEN Val(line.used_from_stock_ml)
  ELSE Val(line.used_from_stock_quantity)

\* 0 <= used_from_stock <= requested and needed = requested - used_from_stock
WellFormedLine(line) ==
  /\ 0 <= UsedOf(line) /\ UsedOf(line) <= RequestedOf(line)
  /\ NeededOf(line) = RequestedOf(line) - UsedOf(line)

\* the positions of the lines of a run that were offered stock of an ingredient
OfferedOf(offered, i) == {k \in 1..Len(offered) : offered[k].ingredient_id = i}

\* the snapshot of an ingredient is not below zero after a debit, and the events of the run
\* together use no more than the snapshot the run started with
SnapshotNeverOverdrawn(offered) ==
  /\ \A k \in 1..Len(offered) : offered[k].available - offered[k].used >= 0
  /\ \A i \in IngredientIds :
       OfferedOf(offered, i) # {} =>
         SumOver(OfferedOf(offered, i), [k \in 1..Len(offered) |-> offered[k].used])
           <= offered[CHOOSE k \in OfferedOf(offered, i) : \A j \in OfferedOf(offered, i) : k <= j].available

\* C29: every line written by generate, for every reachable stock state, satisfies
\* 0 <= used_from_stock <= requested and needed = requested - used_from_stock; the running
\* snapshot of an ingredient is never below zero after a debit, and the sum of
\* used_from_stock over the events of one call never exceeds the initial snapshot.
WellFormedLines ==
  [][(last'.op = "generate" /\ Succeeded(last')) =>
       /\ \A o \in orders' : o.id \in WrittenIds(last'.out) =>
            \A n \in 1..Len(o.items) : WellFormedLine(o.items[n])
       /\ SnapshotNeverOverdrawn(last'.out.offered)]_vars

\* C29 for the runs whose stock snapshot has no negative entry
WellFormedLinesOfStockedRuns ==
  [][(/\ last'.op = "generate" /\ Succeeded(last')
      /\ \A k \in 1..Len(last'.out.offered) : last'.out.offered[k].available >= 0) =>
       /\ \A o \in orders' : o.id \in WrittenIds(last'.out) =>
            \A n \in 1..Len(o.items) : WellFormedLine(o.items[n])
       /\ SnapshotNeverOverdrawn(last'.out.offered)]_vars

\* a run on a stock without negative entry that depleted the snapshot of an ingredient: the
\* first event used what there was, less than it requested, and the next found nothing
WellFormedLinesOfStockedRunsWitness ==
  /\ last.op = "generate" /\ Succeeded(last) /\ nops > 0
  /\ \A k \in 1..Len(last.out.offered) : last.out.offered[k].available >= 0
  /\ \E j \in 1..Len(last.out.offered), k \in 1..Len(last.out.offered) :
       /\ j < k /\ last.out.offered[j].ingredient_id = last.out.offered[k].ingredient_id
       /\ 0 < last.out.offered[j].used /\ last.out.offered[j].used < last.out.offered[j].requested
       /\ last.out.offered[k].available = 0 /\ last.out.offered[k].used = 0
       /\ \E o \in orders : /\ o.id \in WrittenIds(last.out) /\ o.scope = "EVENT"
                            /\ o.event_id = last.out.offered[j].event_id
                            /\ \E n \in 1..Len(o.items) :
                                 /\ o.items[n].ingredient_id = last.out.offered[j].ingredient_id
                                 /\ UsedOf(o.items[n]) = last.out.offered[j].used
                                 /\ NeededOf(o.items[n]) > 0

(***************************************************************************)
(* C30  Consumption state is written only by consume and unconsume.        *)
(***************************************************************************)
\* the request was rejected as already consumed: one of the two guards of consume found a
\* movement
AlreadyConsumed(mvs, evs, ev_id) ==
  \/ TaggedConsumeIds(mvs, ev_id) # {}
  \/ ev_id \in DOMAIN evs /\ LegacyConsumeIds(mvs, ev_id, evs[ev_id]) # {}

\* the movements a step marked as reversed
MarkedReversed ==
  {k \in 1..Len(movements) : ~movements[k].is_reversed /\ movements'[k].is_reversed}

\* the state follows a successful create_movement or create_transfer, so the last rows of
\* the ledger are the ones that request wrote
AfterManualMovement ==
  last.op \in {"create_movement", "create_transfer"} /\ Succeeded(last) /\ movements # << >>

\* C30: a movement created through create_movement or transfer, whatever its reason text,
\* source_type and sign, never changes consumption_status of any event, never makes
\* consume(event) fail with the already-consumed Conflict, and is never reversed by
\* unconsume(event).
ConsumptionWrittenByConsumeOnly ==
  [][/\ last'.op \in {"create_movement", "create_transfer"} =>
          \A e \in EventIds :
            /\ event_consumption_status(movements', events', e)
                 = event_consumption_status(movements, events, e)
            /\ AlreadyConsumed(movements', events', e) = AlreadyConsumed(movements, events, e)
     /\ (AfterManualMovement /\ last'.op = "unconsume") => Len(movements) \notin MarkedReversed]_vars

\* the same for the movements the generic entry writes with a source_type of its own
\* (neither missing nor "event"), with a positive change, or with a reason that is not
\* "Event consumed: " followed by the name or by the id of an event
ConsumptionWrittenByConsumeOnlyExceptLegacyText ==
  [][last'.op \in {"create_movement", "create_transfer"} =>
       \A e \in EventIds :
         (\A k \in (Len(movements) + 1)..Len(movements') :
            \/ movements'[k].source_type \notin {NULL, "event"}
            \/ movements'[k].change >= 0
            \/ movements'[k].reason \notin _legacy_event_reason_candidates(e, events[e])) =>
           /\ event_consumption_status(movements', events', e)
                = event_consumption_status(movements, events, e)
           /\ AlreadyConsumed(movements', events', e) = AlreadyConsumed(movements, events, e)]_vars

====
